---------------------------- MODULE Spec2Model ----------------------------
(***************************************************************************)
(* Model of the knowledge-graph pipeline of XuHaowk/kg:                    *)
(*   - merge_kg_files.py : normalize_entity_text, merge_kg_data            *)
(*   - extractor/kimi_client.py : KimiClient.generate_completion           *)
(*                                                                         *)
(* Texts are sequences of characters.  An ASCII character is the one-      *)
(* character string; a CJK character is written by its code point, e.g.    *)
(* "U77FD" "U80BA" (the disease name of the repository's examples).        *)
(* Chinese relation labels are written the same way ("U6291U5236").        *)
(* A python dict is a function whose DOMAIN is the set of keys present, so *)
(* that a missing "occurrences" or "confidence" field is a missing key.    *)
(* Confidences are counted in tenths: 0.5 is 5.                            *)
(***************************************************************************)
EXTENDS Integers, Sequences, FiniteSets, TLC

VARIABLES
    \* ---- merge_kg_data: one run over a list of files
    fragments,            \* the fragments on disk, one directory each
    files,                \* argument: the list of file paths (with their JSON content)
    min_confidence,       \* argument (tenths)
    max_entities,         \* argument, 0 = no cap
    entity_types,         \* argument: set of allowed types, {} = None
    pc,                   \* position in merge_kg_data
    kg_files,             \* local: combined files, in list order
    entity_files,         \* local: entities.json files, in list order
    relation_files,       \* local: relations.json files, in list order
    merged_data,          \* local: [entities, relations, metadata]
    entity_map,           \* local: (normalized text, type) -> index in merged_data.entities[type]
    processed_relations,  \* local: set of relation keys
    \* ---- a chain of merges: merge(merge([A,B]),C) and merge(A, merge([B,C]))
    chain,                \* [ab, bc, left, right]: the outputs; done: those written so far
    \* ---- KimiClient.generate_completion: one call
    primary_model,        \* self.primary_model
    models_to_try,        \* local
    model_idx,            \* position of the outer for loop (1-based)
    attempt,              \* position of the inner for loop
    cpc,                  \* position in generate_completion
    requests,             \* history: the model of every request sent, in order
    last_status,          \* history: HTTP status of the last answer (0: none yet,
                          \*          -1: no answer, the request raised)
    not_found,            \* history: models that answered HTTP 404
    first_ok,             \* history: number of the first request answered 200 with a JSON body
    result,               \* the returned value
    \* ---- KimiClient: the rate limiter, over successive calls of one client
    now,                  \* time.time(), in ticks of 75 ms
    last_request_time,    \* self.last_request_time
    last_end,             \* history: when the latest request ended (answer or exception)
    gap,                  \* history: the time from last_end to the start of the latest request
    \* ---- TextProcessor.split_text_into_chunks: one call
    input_text,           \* argument: text
    max_chunk_size,       \* self.max_chunk_size
    overlap_size,         \* self.overlap_size
    split_result,         \* what the call did: the returned chunks, or the exception
    \* ---- EntityExtractor.extract_entities, RelationExtractor.extract_relations
    completion,           \* what self.client.generate_completion returns
    allowed_types,        \* self.allowed_types
    entities_arg,         \* argument of extract_relations: entities
    extracted,            \* what the call did: the returned value, or the exception
    xpc,                  \* which call was made
    \* ---- process_batch: one batch
    input_files,          \* argument: the list of input paths
    parallel,             \* argument
    max_workers,          \* argument
    fates,                \* what the pipeline of each file will do
    workers,              \* the state of the pipeline of each file
    writers,              \* history: output directory -> the pipelines that wrote into it
    results,              \* local: file_path -> result
    summary,              \* local
    bpc,                  \* position in process_batch
    \* ---- KnowledgeGraphBuilder.build_graph: one call
    self_data,            \* self.data: the loaded fragment
    self_graph,           \* self.graph: nodes with their attributes, edges in order
    gpc,                  \* position in build_graph: the loop and its next item
    \* ---- the command lines, the formatter, the document pipeline
    cli,                  \* one run of the batch command or of the merge command
    csv,                  \* one call of OutputFormatter.format_output
    norm,                 \* one call of normalize_entity_text
    doc,                  \* one run of process_pubmed_file over the chunks of a document
    built_once,           \* history: self.graph at the end of the first build_graph
    extractor             \* the extractor whose client sends the requests of the pipeline

mergeVars == <<fragments, files, min_confidence, max_entities, entity_types, pc, kg_files,
               entity_files, relation_files, merged_data, entity_map,
               processed_relations>>
clientVars == <<primary_model, models_to_try, model_idx, attempt, cpc, requests,
                last_status, not_found, first_ok, result>>
rateVars == <<now, last_request_time, last_end, gap>>
\* the variables of the components added after the merger and the client
chunkVars == <<input_text, max_chunk_size, overlap_size, split_result>>
extractVars == <<completion, allowed_types, entities_arg, extracted, xpc>>
batchVars == <<input_files, parallel, max_workers, fates, workers, writers, results,
               summary, bpc>>
graphVars == <<self_data, self_graph, gpc>>
lateVars == <<cli, csv, norm, doc, built_once, extractor>>
restVars == <<rateVars, chunkVars, extractVars, batchVars, graphVars, lateVars>>
\* what a specification of one component leaves alone
exceptRate == <<mergeVars, chain, chunkVars, extractVars, batchVars, graphVars,
                lateVars>>
exceptChunk == <<mergeVars, chain, clientVars, rateVars, extractVars, batchVars, graphVars,
                 lateVars>>
exceptExtract == <<mergeVars, chain, clientVars, rateVars, chunkVars, batchVars, graphVars,
                   lateVars>>
exceptGraph == <<mergeVars, chain, clientVars, rateVars, chunkVars, extractVars,
                 batchVars, lateVars>>
exceptBatch == <<mergeVars, chain, clientVars, rateVars, chunkVars, extractVars, graphVars,
                 lateVars>>
vars == <<mergeVars, chain, clientVars, restVars>>

\* the rate limiter is not observed
RateIdle == now = 0 /\ last_request_time = 0 /\ last_end = -1 /\ gap = -1
\* the text processor has not been called
NotSplit == [kind |-> "none", chunks |-> <<>>, steps |-> {}]
ChunkIdle == input_text = <<>> /\ max_chunk_size = 0 /\ overlap_size = 0 /\ split_result = NotSplit
\* no extractor has been called
NotExtracted == [kind |-> "none"]
ExtractIdle ==
    /\ completion = [choices |-> "none"] /\ allowed_types = <<>> /\ entities_arg = <<>>
    /\ extracted = NotExtracted /\ xpc = "idle"
\* no batch is run
NoSummary == [total_files |-> 0, successful_files |-> 0, failed_files |-> 0]
BatchIdle ==
    /\ input_files = <<>> /\ parallel = FALSE /\ max_workers = 0
    /\ fates = <<>> /\ workers = <<>> /\ writers = <<>> /\ results = <<>>
    /\ summary = NoSummary /\ bpc = "idle"
\* no graph is built
EmptyGraph == [nodes |-> <<>>, edges |-> <<>>]
GraphIdle ==
    /\ self_data = <<>> /\ self_graph = EmptyGraph /\ gpc = [loop |-> "idle", i |-> 0]
\* no command is run, nothing is formatted, normalized or aggregated
Unused == [kind |-> "unused"]
LateIdle ==
    /\ cli = Unused /\ csv = Unused /\ norm = Unused /\ doc = Unused
    /\ built_once = Unused /\ extractor = Unused
RestIdle == RateIdle /\ ChunkIdle /\ ExtractIdle /\ BatchIdle /\ GraphIdle /\ LateIdle

-----------------------------------------------------------------------------
(* Bounds of the model *)

\* longest list of fragments handed to one merge run
MaxFiles == 2
\* largest max_entities argument tried
MaxCap == 2

-----------------------------------------------------------------------------
(* python helpers *)

\* dict.get(key, default)
Get(d, key, default) == IF key \in DOMAIN d THEN d[key] ELSE default

\* d[key] = value on a copy
Put(d, key, value) ==
    [k \in DOMAIN d \cup {key} |-> IF k = key THEN value ELSE d[k]]

-----------------------------------------------------------------------------
(* normalize_entity_text *)

\* the characters of the model's texts in the range U+4E00 .. U+9FFF
CJKChars == {"U77FD", "U80BA"}

\* str.lower() on the letters of the model's texts
LowerCase ==
    [A |-> "a", B |-> "b", C |-> "c", D |-> "d", E |-> "e", F |-> "f", G |-> "g",
     H |-> "h", I |-> "i", J |-> "j", K |-> "k", L |-> "l", M |-> "m", N |-> "n",
     O |-> "o", P |-> "p", Q |-> "q", R |-> "r", S |-> "s", T |-> "t", U |-> "u",
     V |-> "v", W |-> "w", X |-> "x", Y |-> "y", Z |-> "z"]

lower(text) ==
    [i \in 1..Len(text) |->
        IF text[i] \in DOMAIN LowerCase THEN LowerCase[text[i]] ELSE text[i]]

\* text.replace(old, ""): leftmost non-overlapping occurrences removed
RECURSIVE remove(_, _)
remove(text, old) ==
    IF Len(text) < Len(old) THEN text
    ELSE IF SubSeq(text, 1, Len(old)) = old
         THEN remove(SubSeq(text, Len(old) + 1, Len(text)), old)
         ELSE <<Head(text)>> \o remove(Tail(text), old)

\* text.split(): the maximal runs of non-space characters
RECURSIVE split(_, _)
split(text, word) ==
    IF text = <<>> THEN (IF word = <<>> THEN <<>> ELSE <<word>>)
    ELSE IF Head(text) = " "
         THEN (IF word = <<>> THEN <<>> ELSE <<word>>) \o split(Tail(text), <<>>)
         ELSE split(Tail(text), Append(word, Head(text)))

\* " ".join(words)
RECURSIVE join(_)
join(words) ==
    IF words = <<>> THEN <<>>
    ELSE IF Len(words) = 1 THEN words[1]
         ELSE words[1] \o <<" ">> \o join(Tail(words))

old_the == <<"t", "h", "e", " ">>
old_protein == <<" ", "p", "r", "o", "t", "e", "i", "n">>
old_gene == <<" ", "g", "e", "n", "e">>

normalize_entity_text(text) ==
    LET has_chinese == \E i \in 1..Len(text) : text[i] \in CJKChars
        lowered == IF has_chinese THEN text ELSE lower(text)
        stripped == remove(remove(remove(lowered, old_the), old_protein), old_gene)
    IN join(split(stripped, <<>>))

-----------------------------------------------------------------------------
(* merge_kg_data: the tables and the loop bodies *)

\* default of relation.get("confidence", 0.5), in tenths
DefaultConfidence == 5

\* relation_type_map: English label -> canonical (Chinese) label
relation_type_map ==
    [inhibits        |-> "U6291U5236",
     activates       |-> "U6FC0U6D3B",
     treats          |-> "U6CBBU7597",
     causes          |-> "U5F15U8D77",
     binds           |-> "U7ED3U5408",
     expresses       |-> "U8868U8FBE",
     regulates       |-> "U8C03U8282",
     phosphorylates  |-> "U78F7U9178U5316",
     degrades        |-> "U964DU89E3",
     extracted_from  |-> "U63D0U53D6U81EA",
     part_of         |-> "U7EC4U5206",
     isolated_from   |-> "U5206U79BBU81EA",
     converts_to     |-> "U8F6CU5316U4E3A",
     metabolizes_to  |-> "U4EE3U8C22U4E3A",
     upregulates     |-> "U4E0AU8C03",
     downregulates   |-> "U4E0BU8C03",
     blocks          |-> "U963BU65AD",
     mediates        |-> "U4ECBU5BFC",
     correlates_with |-> "U76F8U5173",
     marks           |-> "U6807U5FD7",
     indicates       |-> "U6307U793A"]

\* file_name == "knowledge_graph.json" or file_name.endswith('_graph.json')
IsKgFileName(file_name) ==
    file_name \in {"knowledge_graph.json", "merged_knowledge_graph.json"}

\* the locals of merge_kg_data before the first file
EmptyMerge ==
    [merged_data |-> [entities |-> <<>>, relations |-> <<>>,
                      metadata |-> [entity_count |-> 0, relation_count |-> 0]],
     entity_map |-> <<>>,
     processed_relations |-> {}]

\* `if entity_types and entity_type not in entity_types`
TypeExcluded(types, entity_type) == types # {} /\ entity_type \notin types

\* MergeEntity with the map keyed by the raw text instead of the normalized text
MergeEntityRawKey(m, entity_type, entity) ==
    LET normalized_text == normalize_entity_text(Get(entity, "text", <<>>))
        entity_key == <<Get(entity, "text", <<>>), entity_type>>
        list == m.merged_data.entities[entity_type]
    IN IF normalized_text = <<>> THEN m
       ELSE IF entity_key \notin DOMAIN m.entity_map
       THEN [m EXCEPT !.merged_data.entities[entity_type] = Append(list, entity),
                      !.entity_map = (entity_key :> (Len(list) + 1)) @@ @]
       ELSE LET at == m.entity_map[entity_key]
                existing_entity == list[at]
            IN [m EXCEPT !.merged_data.entities[entity_type][at] =
                    Put(existing_entity, "occurrences",
                        Get(existing_entity, "occurrences", 1)
                            + Get(entity, "occurrences", 1))]

\* MergeEntity that leaves an entity already in the map as it is
MergeEntityKeepFirst(m, entity_type, entity) ==
    LET normalized_text == normalize_entity_text(Get(entity, "text", <<>>))
        entity_key == <<normalized_text, entity_type>>
        list == m.merged_data.entities[entity_type]
    IN IF normalized_text = <<>> THEN m
       ELSE IF entity_key \notin DOMAIN m.entity_map
       THEN [m EXCEPT !.merged_data.entities[entity_type] = Append(list, entity),
                      !.entity_map = (entity_key :> (Len(list) + 1)) @@ @]
       ELSE m

\* MergeEntity that counts a repeated entity once, whatever its occurrences
MergeEntityCountOne(m, entity_type, entity) ==
    LET normalized_text == normalize_entity_text(Get(entity, "text", <<>>))
        entity_key == <<normalized_text, entity_type>>
        list == m.merged_data.entities[entity_type]
    IN IF normalized_text = <<>> THEN m
       ELSE IF entity_key \notin DOMAIN m.entity_map
       THEN [m EXCEPT !.merged_data.entities[entity_type] = Append(list, entity),
                      !.entity_map = (entity_key :> (Len(list) + 1)) @@ @]
       ELSE LET at == m.entity_map[entity_key]
                existing_entity == list[at]
            IN [m EXCEPT !.merged_data.entities[entity_type][at] =
                    Put(existing_entity, "occurrences",
                        Get(existing_entity, "occurrences", 1) + 1)]

\* body of `for entity in entities`: one entity of one type
MergeEntity(m, entity_type, entity) ==
    LET normalized_text == normalize_entity_text(Get(entity, "text", <<>>))
        entity_key == <<normalized_text, entity_type>>
        list == m.merged_data.entities[entity_type]
    IN IF normalized_text = <<>> THEN m
       ELSE IF entity_key \notin DOMAIN m.entity_map
       THEN [m EXCEPT !.merged_data.entities[entity_type] = Append(list, entity),
                      !.entity_map = (entity_key :> (Len(list) + 1)) @@ @]
       ELSE LET at == m.entity_map[entity_key]
                existing_entity == list[at]
            IN [m EXCEPT !.merged_data.entities[entity_type][at] =
                    Put(existing_entity, "occurrences",
                        Get(existing_entity, "occurrences", 1)
                            + Get(entity, "occurrences", 1))]

RECURSIVE MergeEntityList(_, _, _)
MergeEntityList(m, entity_type, entities) ==
    IF entities = <<>> THEN m
    ELSE MergeEntityList(MergeEntity(m, entity_type, Head(entities)),
                         entity_type, Tail(entities))

\* body of `for entity_type, entities in ...items()`: one type of one file
MergeEntityType(m, types, entity_type, entities) ==
    IF TypeExcluded(types, entity_type) THEN m
    ELSE LET opened ==
                 IF entity_type \in DOMAIN m.merged_data.entities THEN m
                 ELSE [m EXCEPT !.merged_data.entities = (entity_type :> <<>>) @@ @]
         IN MergeEntityList(opened, entity_type, entities)

\* the loop over the types of one file; types are merged independently of
\* each other, so the order of the dict's keys does not show in the result
RECURSIVE MergeEntities(_, _, _, _)
MergeEntities(m, types, entities_data, todo) ==
    IF todo = {} THEN m
    ELSE LET entity_type == CHOOSE t \in todo : TRUE
         IN MergeEntities(MergeEntityType(m, types, entity_type, entities_data[entity_type]),
                          types, entities_data, todo \ {entity_type})

\* BelowThreshold with a relation without confidence taken as certain
BelowThresholdDefaultOne(relation, minc) == Get(relation, "confidence", 10) < minc

\* `if confidence < min_confidence: continue`
BelowThreshold(relation, minc) == Get(relation, "confidence", DefaultConfidence) < minc

\* UnifiedType without the lookup: the label as it is
UnifiedTypeRaw(relation) == Get(relation, "relation", "")

\* rel_type after the lookup in relation_type_map
UnifiedType(relation) ==
    LET rel_type == Get(relation, "relation", "")
    IN IF rel_type \in DOMAIN relation_type_map THEN relation_type_map[rel_type]
       ELSE rel_type

\* rel_key
RelKey(relation) ==
    LET source == Get(relation, "source", <<>>)
        target == Get(relation, "target", <<>>)
    IN <<normalize_entity_text(Get(source, "text", <<>>)), Get(source, "type", ""),
         normalize_entity_text(Get(target, "text", <<>>)), Get(target, "type", ""),
         UnifiedType(relation)>>

\* body of `for relation in ...`: one relation
MergeRelation(m, minc, types, relation) ==
    LET source == Get(relation, "source", <<>>)
        target == Get(relation, "target", <<>>)
        rel_key == RelKey(relation)
    IN IF BelowThreshold(relation, minc) THEN m
       ELSE IF types # {} /\ (Get(source, "type", "") \notin types
                              \/ Get(target, "type", "") \notin types) THEN m
       ELSE IF rel_key \in m.processed_relations THEN m
       ELSE [m EXCEPT !.merged_data.relations =
                          Append(@, Put(relation, "relation", UnifiedType(relation))),
                      !.processed_relations = @ \cup {rel_key}]

RECURSIVE MergeRelations(_, _, _, _)
MergeRelations(m, minc, types, relations) ==
    IF relations = <<>> THEN m
    ELSE MergeRelations(MergeRelation(m, minc, types, Head(relations)),
                        minc, types, Tail(relations))

\* body of `for file_path in kg_files`
ProcessKgFile(m, minc, types, file) ==
    LET data == file.data
    IN IF DOMAIN data = {} THEN m
       ELSE LET withEntities ==
                    IF "entities" \in DOMAIN data
                    THEN MergeEntities(m, types, data.entities, DOMAIN data.entities)
                    ELSE m
            IN IF "relations" \in DOMAIN data
               THEN MergeRelations(withEntities, minc, types, data.relations)
               ELSE withEntities

\* body of `for i, entity_file in enumerate(entity_files)`
ProcessEntityFile(m, minc, types, entity_file, relFiles) ==
    LET entities_data == entity_file.data
        paired == {j \in 1..Len(relFiles) : relFiles[j].dir = entity_file.dir}
        withEntities == MergeEntities(m, types, entities_data, DOMAIN entities_data)
    IN IF DOMAIN entities_data = {} THEN m
       ELSE IF paired = {} THEN withEntities
       ELSE LET relations_data == relFiles[CHOOSE j \in paired : TRUE].data
            IN MergeRelations(withEntities, minc, types, relations_data)

\* SortByOccurrences that leaves the list in insertion order
Unsorted(entities) == entities

\* sorted(entities, key=occurrences, reverse=True): stable insertion sort
RECURSIVE SortByOccurrences(_)
SortByOccurrences(entities) ==
    IF entities = <<>> THEN <<>>
    ELSE LET rest == SortByOccurrences(Tail(entities))
             e == Head(entities)
             \* e goes before the first element with occurrences <= its own
             k == Cardinality({j \in 1..Len(rest) :
                     \A i \in 1..j : Get(rest[i], "occurrences", 1)
                                        > Get(e, "occurrences", 1)})
         IN SubSeq(rest, 1, k) \o <<e>> \o SubSeq(rest, k + 1, Len(rest))

\* sorted_entities[:max_entities]
Truncate(entities, n) == SubSeq(entities, 1, IF Len(entities) < n THEN Len(entities) ELSE n)

\* the `if max_entities > 0` block and the statistics
LimitEntities(m, maxe) ==
    LET limited ==
            IF maxe > 0
            THEN [t \in DOMAIN m.merged_data.entities |->
                     Truncate(SortByOccurrences(m.merged_data.entities[t]), maxe)]
            ELSE m.merged_data.entities
        total_entities == LET RECURSIVE Sum(_)
                              Sum(S) == IF S = {} THEN 0
                                        ELSE LET t == CHOOSE x \in S : TRUE
                                             IN Len(limited[t]) + Sum(S \ {t})
                          IN Sum(DOMAIN limited)
    IN [m EXCEPT !.merged_data.entities = limited,
                 !.merged_data.metadata =
                     [entity_count |-> total_entities,
                      relation_count |-> Len(m.merged_data.relations)]]

\* the files of one class, in list order
RECURSIVE SelectFiles(_, _)
SelectFiles(fs, class) ==
    IF fs = <<>> THEN <<>>
    ELSE LET file_name == Head(fs).name
             cls == IF IsKgFileName(file_name) THEN "kg"
                    ELSE IF file_name = "entities.json" THEN "entities"
                    ELSE IF file_name = "relations.json" THEN "relations"
                    ELSE "none"
         IN (IF cls = class THEN <<Head(fs)>> ELSE <<>>) \o SelectFiles(Tail(fs), class)

RECURSIVE KgLoop(_, _, _, _)
KgLoop(m, minc, types, kgs) ==
    IF kgs = <<>> THEN m
    ELSE KgLoop(ProcessKgFile(m, minc, types, Head(kgs)), minc, types, Tail(kgs))

RECURSIVE EntityLoop(_, _, _, _, _)
EntityLoop(m, minc, types, ents, rels) ==
    IF ents = <<>> THEN m
    ELSE EntityLoop(ProcessEntityFile(m, minc, types, Head(ents), rels),
                    minc, types, Tail(ents), rels)

\* merge_kg_data(files, min_confidence, max_entities, entity_types), as a function
merge_kg_data(fs, minc, maxe, types) ==
    LET afterKg == KgLoop(EmptyMerge, minc, types, SelectFiles(fs, "kg"))
        afterSplit == EntityLoop(afterKg, minc, types, SelectFiles(fs, "entities"),
                                 SelectFiles(fs, "relations"))
    IN LimitEntities(afterSplit, maxe).merged_data

-----------------------------------------------------------------------------
(* The fragments the runs are fed with *)

IL6 == <<"I", "L", "-", "6">>
il6 == <<"i", "l", "-", "6">>
TheIL6Protein == <<"T", "h", "e", " ", "I", "L", "-", "6", " ",
                   "P", "r", "o", "t", "e", "i", "n">>
TNF == <<"T", "N", "F">>
TP53 == <<"T", "P", "5", "3">>
The == <<"T", "h", "e", " ">>
Aspirin == <<"A", "S", "A">>
Silicosis == <<"U77FD", "U80BA">>

Ent(text, occurrences) == [text |-> text, occurrences |-> occurrences]
EntNoOcc(text) == [text |-> text]
Ref(text, type) == [text |-> text, type |-> type]
Rel(source, target, relation, confidence) ==
    [source |-> source, target |-> target, relation |-> relation,
     confidence |-> confidence]
RelNoConf(source, target, relation) ==
    [source |-> source, target |-> target, relation |-> relation]

AllTypes == {"Gene", "Disease", "Drug"}

\* a fragment: its shape on disk, its entities map and its relation list
Fragment(shape, entities, relations) ==
    [shape |-> shape, entities |-> entities, relations |-> relations]

FragmentPool ==
    { Fragment("kg", [Disease |-> <<Ent(Silicosis, 3)>>], <<>>),
      Fragment("kg",
               [Gene |-> <<Ent(IL6, 2), EntNoOcc(TNF)>>,
                Disease |-> <<Ent(Silicosis, 2)>>],
               <<Rel(Ref(IL6, "Gene"), Ref(Silicosis, "Disease"), "inhibits", 9)>>),
      Fragment("kg",
               [Gene |-> <<Ent(TheIL6Protein, 3), Ent(il6, 1), Ent(The, 1), Ent(TP53, 1),
                           Ent(TNF, 2)>>],
               <<Rel(Ref(il6, "Gene"), Ref(Silicosis, "Disease"), "U6291U5236", 3),
                 RelNoConf(Ref(TNF, "Gene"), Ref(Silicosis, "Disease"), "causes")>>),
      Fragment("kg",
               [Gene |-> <<Ent(TNF, 3), Ent(TP53, 2)>>, Drug |-> <<Ent(Aspirin, 1)>>],
               <<Rel(Ref(TNF, "Gene"), Ref(Silicosis, "Disease"), "U5F15U8D77", 7),
                 Rel(Ref(Aspirin, "Drug"), Ref(Silicosis, "Disease"), "treats", 8)>>),
      Fragment("split",
               [Gene |-> <<EntNoOcc(il6), Ent(TNF, 1)>>],
               <<Rel(Ref(TheIL6Protein, "Gene"), Ref(Silicosis, "Disease"), "U6291U5236", 6)>>),
      Fragment("split", <<>>,
               <<Rel(Ref(TNF, "Gene"), Ref(Silicosis, "Disease"), "causes", 8)>>) }

MinConfidences == {0, DefaultConfidence, 7}
TypeFilters == {{}, {"Gene", "Disease"}, {"Gene"}}

\* the files of the fragment kept in directory dir: one combined file, or a
\* split pair
FilesOfFragment(f, dir) ==
    IF f.shape = "kg"
    THEN <<[dir |-> dir, name |-> "knowledge_graph.json",
            data |-> [entities |-> f.entities, relations |-> f.relations]]>>
    ELSE <<[dir |-> dir, name |-> "entities.json", data |-> f.entities],
           [dir |-> dir, name |-> "relations.json", data |-> f.relations]>>

\* the file list of fragments frs, kept in directories first, first+1, ...
RECURSIVE FilesOf(_, _)
FilesOf(frs, first) ==
    IF frs = <<>> THEN <<>>
    ELSE FilesOfFragment(Head(frs), first) \o FilesOf(Tail(frs), first + 1)

\* a merge output saved by main() (default name merged_knowledge_graph.json)
OutputFile(data, dir) ==
    [dir |-> dir, name |-> "merged_knowledge_graph.json", data |-> data]

\* no merge of the chain has run yet
NoChain == [done |-> {}, ab |-> <<>>, bc |-> <<>>, left |-> <<>>, right |-> <<>>]

-----------------------------------------------------------------------------
(* merge_kg_data as a run *)

Locals == [merged_data |-> merged_data, entity_map |-> entity_map,
           processed_relations |-> processed_relations]

SetLocals(m) ==
    /\ merged_data' = m.merged_data
    /\ entity_map' = m.entity_map
    /\ processed_relations' = m.processed_relations

ClientIdle ==
    /\ primary_model = "" /\ models_to_try = <<>> /\ model_idx = 0 /\ attempt = 0
    /\ cpc = "idle" /\ requests = <<>> /\ last_status = 0 /\ not_found = {}
    /\ first_ok = 0 /\ result = [kind |-> "none", request |-> 0]

MergeIdle ==
    /\ files = <<>> /\ pc = "idle"
    /\ kg_files = <<>> /\ entity_files = <<>> /\ relation_files = <<>>
    /\ merged_data = EmptyMerge.merged_data
    /\ entity_map = <<>> /\ processed_relations = {}

\* the merger is not run
MergerIdle ==
    /\ fragments = <<>> /\ min_confidence = 0 /\ max_entities = 0 /\ entity_types = {}
    /\ MergeIdle
    /\ chain = NoChain

Init ==
    /\ fragments \in UNION {[1..n -> FragmentPool] : n \in 1..MaxFiles}
    /\ files = FilesOf(fragments, 1)
    /\ min_confidence \in MinConfidences
    /\ max_entities \in 0..MaxCap
    /\ entity_types \in TypeFilters
    /\ pc = "start"
    /\ kg_files = <<>> /\ entity_files = <<>> /\ relation_files = <<>>
    /\ merged_data = EmptyMerge.merged_data
    /\ entity_map = <<>> /\ processed_relations = {}
    /\ chain = NoChain
    /\ ClientIdle
    /\ RestIdle

\* lines 197-209: the files are sorted into the three lists
Classify ==
    /\ pc = "start"
    /\ kg_files' = SelectFiles(files, "kg")
    /\ entity_files' = SelectFiles(files, "entities")
    /\ relation_files' = SelectFiles(files, "relations")
    /\ pc' = "loop"
    /\ UNCHANGED <<fragments, files, min_confidence, max_entities, entity_types,
                   merged_data, entity_map, processed_relations, chain, clientVars>>
    /\ UNCHANGED restVars

\* lines 212-298: one turn of `for file_path in kg_files`
NextKgFile ==
    /\ pc = "loop" /\ kg_files # <<>>
    /\ SetLocals(ProcessKgFile(Locals, min_confidence, entity_types, Head(kg_files)))
    /\ kg_files' = Tail(kg_files)
    /\ UNCHANGED <<fragments, files, min_confidence, max_entities, entity_types, pc,
                   entity_files, relation_files, chain, clientVars>>
    /\ UNCHANGED restVars

\* lines 301-389: one turn of `for i, entity_file in enumerate(entity_files)`
NextEntityFile ==
    /\ pc = "loop" /\ kg_files = <<>> /\ entity_files # <<>>
    /\ SetLocals(ProcessEntityFile(Locals, min_confidence, entity_types,
                                   Head(entity_files), relation_files))
    /\ entity_files' = Tail(entity_files)
    /\ UNCHANGED <<fragments, files, min_confidence, max_entities, entity_types, pc,
                   kg_files, relation_files, chain, clientVars>>
    /\ UNCHANGED restVars

\* lines 391-405: the cap, the statistics and the return
Finish ==
    /\ pc = "loop" /\ kg_files = <<>> /\ entity_files = <<>>
    /\ SetLocals(LimitEntities(Locals, max_entities))
    /\ pc' = "done"
    /\ UNCHANGED <<fragments, files, min_confidence, max_entities, entity_types,
                   kg_files, entity_files, relation_files, chain, clientVars>>
    /\ UNCHANGED restVars

Next == Classify \/ NextKgFile \/ NextEntityFile \/ Finish

Spec == Init /\ [][Next]_vars

\* the run returns what the function computes
RunIsFunction ==
    pc = "done" =>
        merged_data = merge_kg_data(files, min_confidence, max_entities, entity_types)

-----------------------------------------------------------------------------
(* A chain of merge runs over three fragments A, B, C: the output of one run *)
(* is saved by main() and is an input file of the next run                   *)

InitChain ==
    /\ fragments \in [{1, 2, 3} -> FragmentPool]
    /\ min_confidence \in MinConfidences
    /\ max_entities \in 0..MaxCap
    /\ entity_types \in TypeFilters
    /\ chain = NoChain
    /\ MergeIdle
    /\ ClientIdle
    /\ RestIdle

RunMerge(fs) == merge_kg_data(fs, min_confidence, max_entities, entity_types)

\* merge([A, B])
MergeAB ==
    /\ "ab" \notin chain.done
    /\ chain' = [chain EXCEPT !.ab = RunMerge(FilesOf(SubSeq(fragments, 1, 2), 1)),
                              !.done = @ \cup {"ab"}]
    /\ UNCHANGED <<mergeVars, clientVars>>
    /\ UNCHANGED restVars

\* merge([B, C])
MergeBC ==
    /\ "bc" \notin chain.done
    /\ chain' = [chain EXCEPT !.bc = RunMerge(FilesOf(SubSeq(fragments, 2, 3), 2)),
                              !.done = @ \cup {"bc"}]
    /\ UNCHANGED <<mergeVars, clientVars>>
    /\ UNCHANGED restVars

\* merge([output of merge([A, B]), C])
MergeLeft ==
    /\ "ab" \in chain.done /\ "left" \notin chain.done
    /\ chain' = [chain EXCEPT
                    !.left = RunMerge(<<OutputFile(chain.ab, 0)>>
                                      \o FilesOf(SubSeq(fragments, 3, 3), 3)),
                    !.done = @ \cup {"left"}]
    /\ UNCHANGED <<mergeVars, clientVars>>
    /\ UNCHANGED restVars

\* merge([A, output of merge([B, C])])
MergeRight ==
    /\ "bc" \in chain.done /\ "right" \notin chain.done
    /\ chain' = [chain EXCEPT
                    !.right = RunMerge(FilesOf(SubSeq(fragments, 1, 1), 1)
                                       \o <<OutputFile(chain.bc, 0)>>),
                    !.done = @ \cup {"right"}]
    /\ UNCHANGED <<mergeVars, clientVars>>
    /\ UNCHANGED restVars

NextChain == MergeAB \/ MergeBC \/ MergeLeft \/ MergeRight

SpecChain == InitChain /\ [][NextChain]_vars

-----------------------------------------------------------------------------
(* What the claims speak of *)

\* entity.get("occurrences", 1)
Occurrences(entity) == Get(entity, "occurrences", 1)

\* the entities of type t of all input fragments, in list order
RECURSIVE InputEntities(_, _)
InputEntities(frs, t) ==
    IF frs = <<>> THEN <<>>
    ELSE Get(Head(frs).entities, t, <<>>) \o InputEntities(Tail(frs), t)

\* the sum of the occurrences of the entities of a list that normalize to key
RECURSIVE SumOccurrences(_, _)
SumOccurrences(entities, key) ==
    IF entities = <<>> THEN 0
    ELSE (IF normalize_entity_text(Head(entities).text) = key
          THEN Occurrences(Head(entities)) ELSE 0)
         + SumOccurrences(Tail(entities), key)

\* the elements of a sequence
Range(seq) == {seq[i] : i \in 1..Len(seq)}

\* the merge of the run's files with no cap applied
Uncapped == merge_kg_data(files, min_confidence, 0, entity_types)

Min(a, b) == IF a < b THEN a ELSE b

-----------------------------------------------------------------------------
(* Claims on merge_kg_data *)

\* C1: merge is idempotent on a repeated fragment: merging [F, F] gives the
\* entities (with their occurrences) and the relations of merging [F].
MergeIdempotent ==
    pc = "done" /\ Len(fragments) = 1 =>
        LET twice == merge_kg_data(FilesOf(fragments \o fragments, 1), min_confidence,
                                   max_entities, entity_types)
        IN /\ twice.entities = merged_data.entities
           /\ twice.relations = merged_data.relations

\* C2: in the merged entities map, during and after the merge and after the
\* cap, no two entities of one type have the same normalized text.
NoDuplicateEntity ==
    \A t \in DOMAIN merged_data.entities :
        \A i, j \in 1..Len(merged_data.entities[t]) :
            i # j => normalize_entity_text(merged_data.entities[t][i].text)
                        # normalize_entity_text(merged_data.entities[t][j].text)

\* reached: a finished, capped run over a combined and a split fragment whose
\* inputs spell one entity in two ways and which dropped an entity
NoDuplicateEntityWitness ==
    /\ pc = "done" /\ max_entities > 0
    /\ \E a, b \in 1..Len(fragments) :
            fragments[a].shape = "kg" /\ fragments[b].shape = "split"
    /\ \E t \in DOMAIN merged_data.entities :
        LET inputs == InputEntities(fragments, t)
        IN /\ \E i, j \in 1..Len(inputs) :
                /\ inputs[i].text # inputs[j].text
                /\ normalize_entity_text(inputs[i].text)
                       = normalize_entity_text(inputs[j].text)
                /\ \E e \in Range(merged_data.entities[t]) :
                       normalize_entity_text(e.text)
                           = normalize_entity_text(inputs[i].text)
           /\ Len(Uncapped.entities[t]) > Len(merged_data.entities[t])

\* C3: with no cap, the occurrences of a merged entity are the sum of the
\* occurrences (1 when the field is missing) of the input entities of its
\* type and normalized text; only entities of allowed types are merged.
OccurrencesAreSums ==
    pc = "done" /\ max_entities = 0 =>
        \A t \in DOMAIN merged_data.entities :
            /\ ~TypeExcluded(entity_types, t)
            /\ \A e \in Range(merged_data.entities[t]) :
                   Occurrences(e) = SumOccurrences(InputEntities(fragments, t),
                                                   normalize_entity_text(e.text))

\* reached: an uncapped run with a type filter in which one merged entity sums
\* entities of two fragments, one of them without the occurrences field
OccurrencesAreSumsWitness ==
    /\ pc = "done" /\ max_entities = 0 /\ entity_types # {}
    /\ Len(fragments) > 1
    /\ \E t \in DOMAIN merged_data.entities :
        \E e \in Range(merged_data.entities[t]) :
            /\ \A a \in 1..Len(fragments) :
                   \E x \in Range(Get(fragments[a].entities, t, <<>>)) :
                       normalize_entity_text(x.text) = normalize_entity_text(e.text)
            /\ \E x \in Range(InputEntities(fragments, t)) :
                   /\ normalize_entity_text(x.text) = normalize_entity_text(e.text)
                   /\ "occurrences" \notin DOMAIN x
            /\ Occurrences(e) > 2

\* C4: no merged relation has a confidence (0.5 when the field is missing)
\* below min_confidence.
NoRelationBelowThreshold ==
    \A r \in Range(merged_data.relations) :
        Get(r, "confidence", DefaultConfidence) >= min_confidence

\* ---- the identity of a relation, for C24

\* the canonical form of a label: the Chinese label of an English label of
\* the table, the label itself otherwise
CanonicalLabel(label) ==
    IF label \in DOMAIN relation_type_map THEN relation_type_map[label] ELSE label

Identity(r) ==
    LET source == Get(r, "source", <<>>)
        target == Get(r, "target", <<>>)
    IN <<normalize_entity_text(Get(source, "text", <<>>)), Get(source, "type", ""),
         normalize_entity_text(Get(target, "text", <<>>)), Get(target, "type", ""),
         CanonicalLabel(Get(r, "relation", ""))>>

\* the relations of the fragments of a shape, in list order; the relations
\* of a split fragment are read only when its entities.json holds entities
RECURSIVE RelationsRead(_, _)
RelationsRead(frs, shape) ==
    IF frs = <<>> THEN <<>>
    ELSE (IF Head(frs).shape = shape /\ (shape = "kg" \/ DOMAIN Head(frs).entities # {})
          THEN Head(frs).relations ELSE <<>>)
         \o RelationsRead(Tail(frs), shape)

\* the relations in processing order: those of the combined files, then
\* those of the split pairs
ProcessingOrder == RelationsRead(fragments, "kg") \o RelationsRead(fragments, "split")

\* the relation passes the confidence filter and the type filter
PassesFilters(r) ==
    /\ Get(r, "confidence", DefaultConfidence) >= min_confidence
    /\ entity_types # {} =>
          /\ Get(Get(r, "source", <<>>), "type", "") \in entity_types
          /\ Get(Get(r, "target", <<>>), "type", "") \in entity_types

\* the first relation of the processing order that passes the filters and
\* has this identity (0: none)
FirstPassing(id) ==
    LET hits == {k \in 1..Len(ProcessingOrder) :
                    PassesFilters(ProcessingOrder[k]) /\ Identity(ProcessingOrder[k]) = id}
    IN IF hits = {} THEN 0 ELSE CHOOSE k \in hits : \A h \in hits : k <= h

\* C24: in the merged relation list no two relations have the same identity
\* (normalized source text, source type, normalized target text, target
\* type, canonical label); each is the first relation of its identity in
\* processing order that passes the filters, with its label in canonical
\* form and everything else, its confidence included, unchanged; and every
\* passing relation has its identity in the list.
RelationKeysUnique ==
    pc = "done" =>
        LET rs == merged_data.relations
        IN /\ \A i, j \in 1..Len(rs) : Identity(rs[i]) = Identity(rs[j]) => i = j
           /\ \A i \in 1..Len(rs) :
                 LET k == FirstPassing(Identity(rs[i]))
                 IN /\ k # 0
                    /\ rs[i].relation = CanonicalLabel(Get(ProcessingOrder[k], "relation", ""))
                    /\ rs[i] = Put(ProcessingOrder[k], "relation", rs[i].relation)
           /\ \A k \in 1..Len(ProcessingOrder) :
                 PassesFilters(ProcessingOrder[k]) =>
                     \E i \in 1..Len(rs) : Identity(rs[i]) = Identity(ProcessingOrder[k])

\* reached: a finished run in which two passing relations of one identity,
\* the first with an English label and the second with its Chinese form and
\* another confidence, left one merged relation with the Chinese label and
\* the confidence of the first
RelationKeysUniqueWitness ==
    /\ pc = "done"
    /\ \E k1, k2 \in 1..Len(ProcessingOrder) :
          LET a == ProcessingOrder[k1]
              b == ProcessingOrder[k2]
          IN /\ k1 < k2 /\ k1 = FirstPassing(Identity(a))
             /\ PassesFilters(b) /\ Identity(a) = Identity(b)
             /\ a.relation \in DOMAIN relation_type_map
             /\ b.relation = relation_type_map[a.relation]
             /\ a.confidence # b.confidence
             /\ \E i \in 1..Len(merged_data.relations) :
                   /\ merged_data.relations[i].relation = b.relation
                   /\ merged_data.relations[i].confidence = a.confidence

\* reached: a finished run with a threshold that dropped a relation, kept a
\* relation without confidence and kept one with a confidence
NoRelationBelowThresholdWitness ==
    /\ pc = "done" /\ min_confidence > 0
    /\ \E a \in 1..Len(fragments) : \E r \in Range(fragments[a].relations) :
           Get(r, "confidence", DefaultConfidence) < min_confidence
    /\ \E r \in Range(merged_data.relations) : "confidence" \notin DOMAIN r
    /\ \E r \in Range(merged_data.relations) : "confidence" \in DOMAIN r

\* C6: with a cap n > 0 every type holds at most n entities, each of them a
\* merged entity with its total, and no dropped entity of the type has more
\* occurrences than a retained one.
CapKeepsTopEntities ==
    pc = "done" /\ max_entities > 0 =>
        /\ DOMAIN merged_data.entities = DOMAIN Uncapped.entities
        /\ \A t \in DOMAIN merged_data.entities :
            LET kept == merged_data.entities[t]
                total == Uncapped.entities[t]
            IN /\ Len(kept) = Min(Len(total), max_entities)
               /\ Range(kept) \subseteq Range(total)
               /\ \A e \in Range(kept) : \A d \in Range(total) \ Range(kept) :
                      Occurrences(e) >= Occurrences(d)

\* reached: a capped run that keeps two entities of a type and drops one that
\* was merged before a retained one
CapKeepsTopEntitiesWitness ==
    /\ pc = "done" /\ max_entities > 1
    /\ \E t \in DOMAIN merged_data.entities :
        LET kept == merged_data.entities[t]
            total == Uncapped.entities[t]
        IN /\ Len(kept) = max_entities
           /\ \E i, j \in 1..Len(total) :
                  i < j /\ total[i] \notin Range(kept) /\ total[j] \in Range(kept)

\* the two groupings of the chain give the same entities and relations
SameResult ==
    /\ chain.left.entities = chain.right.entities
    /\ chain.left.relations = chain.right.relations

\* C5 as stated: merge is associative for all fragments and every fixed
\* min_confidence, max_entities and allowed types.
MergeAssociative ==
    {"left", "right"} \subseteq chain.done => SameResult

\* C5 amended: with no cap and fragments stored as combined files, merging
\* the output of merge([A, B]) with C gives the entities and relations of
\* merging A with the output of merge([B, C]).
MergeAssociativeUncappedCombined ==
    /\ {"left", "right"} \subseteq chain.done
    /\ max_entities = 0
    /\ \A i \in DOMAIN fragments : fragments[i].shape = "kg"
    => SameResult

\* reached: both groupings of three different combined fragments done with no
\* cap, with an entity and a relation key found in more than one fragment
MergeAssociativeWitness ==
    /\ {"left", "right"} \subseteq chain.done
    /\ max_entities = 0
    /\ \A i \in DOMAIN fragments : fragments[i].shape = "kg"
    /\ \A i, j \in DOMAIN fragments : i # j => fragments[i] # fragments[j]
    /\ \E t \in DOMAIN chain.left.entities :
        \E e \in Range(chain.left.entities[t]) :
            \A i \in DOMAIN fragments :
                \E x \in Range(Get(fragments[i].entities, t, <<>>)) :
                    normalize_entity_text(x.text) = normalize_entity_text(e.text)
    /\ \E i, j \in DOMAIN fragments :
        /\ i # j
        /\ \E r \in Range(fragments[i].relations) :
            \E q \in Range(fragments[j].relations) :
                RelKey(r) = RelKey(q) /\ r # q /\ ~BelowThreshold(r, min_confidence)
    /\ chain.left.relations # <<>>

-----------------------------------------------------------------------------
(* KimiClient.generate_completion *)

\* self.available_models
available_models == <<"moonshot-v1-8k", "moonshot-v1-32k", "moonshot-v1-128k">>

\* self.max_retries
max_retries == 5

\* the primary models a client is built with: KIMI_MODEL of config.py, the
\* other fallback models, and a model that is not in the fallback list
PrimaryModels == {"moonshot-v1-8k", "moonshot-v1-32k", "moonshot-v1-128k", "kimi-latest"}

\* list.remove(x): the list without the first x
RECURSIVE Remove(_, _)
Remove(list, x) ==
    IF list = <<>> THEN <<>>
    ELSE IF Head(list) = x THEN Tail(list)
         ELSE <<Head(list)>> \o Remove(Tail(list), x)

\* ModelsToTry that puts the primary first and leaves it in the list as well
ModelsToTryNoRemove(primary) == <<primary>> \o available_models

\* lines 83-88: models_to_try
ModelsToTry(primary) == <<primary>> \o Remove(available_models, primary)

\* What the remote side can do with one request: no answer at all (status -1:
\* requests.post raises a network exception or a timeout), or an answer with a
\* status and a body which is a JSON object whose "error", if any, is an
\* object ("object"), some other JSON value ("other_json") or no JSON at
\* all ("not_json").
Responses ==
    {[status |-> -1, body |-> "none"]}
    \cup {[status |-> st, body |-> b] :
            st \in {200, 429, 404, 500}, b \in {"object", "other_json", "not_json"}}

\* Outcome with the success branch outside the try block: a 200 answer whose
\* body does not parse raises out of generate_completion
OutcomeUncaught(response) ==
    IF response.status = -1 THEN "retry"
    ELSE IF response.status = 200
         THEN (IF response.body = "not_json" THEN "raise" ELSE "return")
    ELSE IF response.status = 404
         THEN (IF response.body = "object" THEN "break" ELSE "retry")
    ELSE "retry"

\* lines 99-177: what one turn of the retry loop does with the answer.
\*   "return": line 134;  "break": line 160, on to the next model;
\*   "retry": the turn ends (continue at line 153, the end of the else branch
\*   at line 167, or the except branch at lines 169-177) and the for loop
\*   goes on;  "raise": an exception leaves generate_completion (never: every
\*   statement of the turn is inside the try block).
\* response.json() raises on a body that is no JSON (lines 134, 138, 157), and
\* .get raises on a JSON value that is no object or whose "error" is no object
\* (lines 138-139, 157-158); both end in the except branch.
Outcome(response) ==
    IF response.status = -1 THEN "retry"
    ELSE IF response.status = 200
         THEN (IF response.body = "not_json" THEN "retry" ELSE "return")
    ELSE IF response.status = 429 THEN "retry"
    ELSE IF response.status = 404
         THEN (IF response.body = "object" THEN "break" ELSE "retry")
    ELSE "retry"

\* NextTurn with one attempt too many: range(1, max_retries + 2)
NextTurnOffByOne(idx, att) ==
    IF att < max_retries + 1 THEN <<idx, att + 1>> ELSE <<idx + 1, 1>>

\* line 98: the next turn of `for attempt in range(1, self.max_retries + 1)`,
\* or the first turn for the next model (line 94) when the range is used up
NextTurn(idx, att) ==
    IF att < max_retries THEN <<idx, att + 1>> ELSE <<idx + 1, 1>>

NoResult == [kind |-> "none", request |-> 0]
\* {"choices": [{"message": {"content": ""}}]}
EmptyContent == [kind |-> "empty", request |-> 0]
\* response.json() of the n-th request of the call
ResponseBody(n) == [kind |-> "response", request |-> n]
Raised(n) == [kind |-> "raised", request |-> n]

InitClient ==
    /\ primary_model \in PrimaryModels
    /\ models_to_try = <<>> /\ model_idx = 0 /\ attempt = 0
    /\ cpc = "start"
    /\ requests = <<>> /\ last_status = 0 /\ not_found = {} /\ first_ok = 0
    /\ result = NoResult
    /\ fragments = <<>> /\ min_confidence = 0 /\ max_entities = 0 /\ entity_types = {}
    /\ MergeIdle
    /\ chain = NoChain
    /\ RestIdle

\* lines 76-94: the call starts with the list of models
Begin ==
    /\ cpc = "start"
    /\ models_to_try' = ModelsToTry(primary_model)
    /\ model_idx' = 1 /\ attempt' = 1
    /\ cpc' = "request"
    /\ UNCHANGED <<primary_model, requests, last_status, not_found, first_ok, result,
                   mergeVars, chain>>
    /\ UNCHANGED restVars

\* lines 98-177: one turn of the retry loop: the request and its answer
Request(response) ==
    /\ cpc = "request" /\ model_idx <= Len(models_to_try)
    /\ LET model == models_to_try[model_idx]
           n == Len(requests) + 1
           outcome == Outcome(response)
           next == IF outcome = "break" THEN <<model_idx + 1, 1>>
                   ELSE IF outcome = "retry" THEN NextTurn(model_idx, attempt)
                   ELSE <<model_idx, attempt>>
       IN /\ requests' = Append(requests, model)
          /\ last_status' = response.status
          /\ not_found' = IF response.status = 404 THEN not_found \cup {model}
                          ELSE not_found
          /\ first_ok' = IF first_ok = 0 /\ response.status = 200
                            /\ response.body # "not_json"
                         THEN n ELSE first_ok
          /\ model_idx' = next[1] /\ attempt' = next[2]
          /\ result' = IF outcome = "return" THEN ResponseBody(n)
                       ELSE IF outcome = "raise" THEN Raised(n)
                       ELSE result
          /\ cpc' = IF outcome \in {"return", "raise"} THEN "done" ELSE cpc
    /\ UNCHANGED <<primary_model, models_to_try, mergeVars, chain>>
    /\ UNCHANGED restVars

\* lines 179-181: every model failed
GiveUp ==
    /\ cpc = "request" /\ model_idx > Len(models_to_try)
    /\ result' = EmptyContent
    /\ cpc' = "done"
    /\ UNCHANGED <<primary_model, models_to_try, model_idx, attempt, requests,
                   last_status, not_found, first_ok, mergeVars, chain>>
    /\ UNCHANGED restVars

NextClient == Begin \/ (\E response \in Responses : Request(response)) \/ GiveUp

SpecClient == InitClient /\ [][NextClient]_vars

-----------------------------------------------------------------------------
(* Claims on generate_completion *)

\* the candidates in the order the client is meant to contact them: the
\* primary, then the fallback list without it
Candidates ==
    <<primary_model>> \o SelectSeq(available_models, LAMBDA m : m # primary_model)

Pos(model) == CHOOSE i \in 1..Len(Candidates) : Candidates[i] = model

\* the number of requests of a history sent to a model
Count(history, model) == Cardinality({i \in 1..Len(history) : history[i] = model})

Last(seq) == seq[Len(seq)]

\* a step of the call that sends a request
Sends == Len(requests') > Len(requests)

\* C7: whatever the remote side answers, the call does not raise, sends a
\* bounded number of requests and is never stuck before it returns; it
\* returns the body of the first request answered 200 with a body that
\* parses, and the empty-content result only when no request was answered so
\* and every candidate is exhausted (max_retries requests, or a 404).
NeverRaises ==
    /\ result.kind # "raised"
    /\ Len(requests) <= max_retries * Len(Candidates)
    /\ cpc # "done" => (ENABLED NextClient) /\ result = NoResult /\ first_ok = 0
    /\ cpc = "done" =>
          IF first_ok # 0
          THEN result = ResponseBody(first_ok) /\ Len(requests) = first_ok
          ELSE /\ result = EmptyContent
               /\ \A i \in 1..Len(Candidates) :
                      \/ Count(requests, Candidates[i]) = max_retries
                      \/ Candidates[i] \in not_found

\* reached: the call returned the empty-content result after a model answered
\* 404 and the last request raised
NeverRaisesWitness ==
    /\ cpc = "done" /\ result = EmptyContent
    /\ not_found # {} /\ last_status = -1
    /\ Len(requests) < max_retries * Len(Candidates)

RetryBudgetKept ==
    [][ /\ \A k \in 1..Len(Candidates) : Count(requests', Candidates[k]) <= max_retries
        /\ Sends /\ last_status \in {429, 500, -1} =>
              IF Count(requests, Last(requests)) < max_retries
              THEN Last(requests') = Last(requests)
              ELSE Pos(Last(requests')) = Pos(Last(requests)) + 1 ]_vars

\* reached: the second candidate answered its last attempt with a 429 and the
\* loop stands at the first turn of the third candidate
RetryBudgetKeptWitness ==
    /\ cpc = "request" /\ last_status = 429
    /\ Len(requests) = 2 * max_retries
    /\ Count(requests, Last(requests)) = max_retries
    /\ model_idx = Pos(Last(requests)) + 1 /\ attempt = 1

\* C10: no request is sent to a model that has answered 404 in this call, and
\* the request after a 404 goes to the next candidate.
AbandonedAfterNotFound ==
    [][ Sends =>
            /\ Last(requests') \notin not_found
            /\ last_status = 404 => Pos(Last(requests')) = Pos(Last(requests)) + 1 ]_vars

-----------------------------------------------------------------------------
(* KimiClient: the rate limiter, over successive calls of one client.      *)
(* Time is counted in ticks of 75 ms, the unit in which                    *)
(* min_request_interval (1.2 s, 16 ticks) and every backoff time           *)
(* 1.2 * 1.5^(attempt-1) s (16, 24, 36, 54 and 81 ticks) are whole numbers.*)

\* latest time at which a step of the model starts
MaxTime == 100
\* how long one request can take, from its start to its answer or exception
RequestDurations == {1, 16}
\* how much longer than asked time.sleep can take, and the time the other
\* statements of the loop can take
Oversleep == {0, 1}
\* how long the caller can stay between the construction of the client and a
\* call, or between two calls
IdleTimes == {0, 5}
\* the number of seconds a 429 answer can name ("after N seconds"); 1 is
\* also the default of line 143
WaitSeconds == {0, 1}

\* self.min_request_interval = 1.2
min_request_interval == 16

\* self.backoff_factor = 1.5, as a fraction
backoff_factor == <<3, 2>>

RECURSIVE Pow(_, _)
Pow(b, e) == IF e = 0 THEN 1 ELSE b * Pow(b, e - 1)

\* lines 166 and 175: min_request_interval * backoff_factor ** (attempt - 1)
backoff_time(att) ==
    (min_request_interval * Pow(backoff_factor[1], att - 1))
        \div Pow(backoff_factor[2], att - 1)

\* a rate limiter that never waits
WaitTimeNone(elapsed) == 0

\* lines 186-191: the time _wait_for_rate_limit sleeps
WaitTime(elapsed) ==
    IF elapsed < min_request_interval THEN min_request_interval - elapsed ELSE 0

\* lines 131-177: the time the turn sleeps after the answer.  A 429 whose
\* body holds an error object sleeps wait_seconds * 1.2 (line 150-152); a
\* 200 with a body that parses and a 404 with an error object do not sleep
\* (lines 134, 160); every other turn ends in the backoff of line 167 or of
\* line 177.
SleepAfter(response, att, wait_seconds) ==
    IF response.status = 200 /\ response.body # "not_json" THEN 0
    ELSE IF response.status = 429 /\ response.body = "object"
         THEN wait_seconds * min_request_interval
    ELSE IF response.status = 404 /\ response.body = "object" THEN 0
    ELSE backoff_time(att)

\* the client of the extractors: KimiClient() with model = KIMI_MODEL,
\* built at a time.time() far from 0
InitRate ==
    /\ primary_model = "moonshot-v1-8k"
    /\ models_to_try = <<>> /\ model_idx = 0 /\ attempt = 0
    /\ cpc = "start"
    /\ requests = <<>> /\ last_status = 0 /\ not_found = {} /\ first_ok = 0
    /\ result = NoResult
    /\ now = min_request_interval /\ last_request_time = 0
    /\ last_end = -1 /\ gap = -1
    /\ MergerIdle
    /\ ChunkIdle /\ ExtractIdle /\ BatchIdle /\ GraphIdle /\ LateIdle

\* lines 76-94: a call of generate_completion starts, the first one or one
\* after the call before it has returned
Call(idle) ==
    /\ cpc \in {"start", "done"} /\ now <= MaxTime
    /\ now' = now + idle
    /\ models_to_try' = ModelsToTry(primary_model)
    /\ model_idx' = 1 /\ attempt' = 1
    /\ cpc' = "wait"
    /\ UNCHANGED <<primary_model, requests, last_status, not_found, first_ok, result,
                   last_request_time, last_end, gap, exceptRate>>

\* line 101: _wait_for_rate_limit at the head of a turn
Wait(over) ==
    /\ cpc = "wait" /\ model_idx <= Len(models_to_try) /\ now <= MaxTime
    /\ now' = now + WaitTime(now - last_request_time) + over
    /\ cpc' = "post"
    /\ UNCHANGED <<primary_model, models_to_try, model_idx, attempt, requests,
                   last_status, not_found, first_ok, result,
                   last_request_time, last_end, gap, exceptRate>>

\* lines 115-177: the request, line 125 when it is answered, and the sleep
\* that ends the turn
Post(response, duration, wait_seconds, over) ==
    /\ cpc = "post" /\ now <= MaxTime
    /\ LET answered == now + duration
           outcome == Outcome(response)
           sleep == SleepAfter(response, attempt, wait_seconds)
           next == IF outcome = "break" THEN <<model_idx + 1, 1>>
                   ELSE IF outcome = "retry" THEN NextTurn(model_idx, attempt)
                   ELSE <<model_idx, attempt>>
       IN /\ gap' = IF last_end = -1 THEN gap ELSE now - last_end
          /\ last_end' = answered
          /\ last_request_time' = IF response.status = -1 THEN last_request_time
                                  ELSE answered
          /\ last_status' = response.status
          /\ now' = answered + sleep + (IF sleep > 0 THEN over ELSE 0)
          /\ model_idx' = next[1] /\ attempt' = next[2]
          /\ cpc' = IF outcome = "return" THEN "done" ELSE "wait"
    /\ UNCHANGED <<primary_model, models_to_try, requests, not_found, first_ok, result,
                   exceptRate>>

\* lines 179-181: every model failed, the call returns
Exhausted ==
    /\ cpc = "wait" /\ model_idx > Len(models_to_try)
    /\ cpc' = "done"
    /\ UNCHANGED <<primary_model, models_to_try, model_idx, attempt, requests,
                   last_status, not_found, first_ok, result, rateVars,
                   exceptRate>>

NextRate ==
    \/ \E idle \in IdleTimes : Call(idle)
    \/ \E over \in Oversleep : Wait(over)
    \/ \E response \in Responses, duration \in RequestDurations,
          wait_seconds \in WaitSeconds, over \in Oversleep :
            Post(response, duration, wait_seconds, over)
    \/ Exhausted

SpecRate == InitRate /\ [][NextRate]_vars

\* C11: every request of the client but its first starts at least
\* min_request_interval after the request before it ended, whether that one
\* was answered or raised, in the same call or in the call before.
RequestsSpaced ==
    /\ gap # -1 => gap >= min_request_interval
    /\ cpc = "post" /\ last_end # -1 => now - last_end >= min_request_interval

\* reached: a request is about to start exactly min_request_interval after
\* the request before it ended in a network exception, which left
\* last_request_time at the end of an older request
RequestsSpacedWitness ==
    /\ cpc = "post" /\ last_status = -1
    /\ now - last_end = min_request_interval
    /\ last_request_time # 0 /\ last_request_time < last_end

-----------------------------------------------------------------------------
(* TextProcessor.split_text_into_chunks.  A text is a sequence of          *)
(* characters; "\n" is the line feed, " " stands for the white space of    *)
(* \s and "." for the sentence ends [.!?].                                 *)

\* longest text split
MaxText == 5
\* largest max_chunk_size and overlap_size tried
MaxChunk == 3

Characters == {"a", ".", " ", "\n"}
Texts == UNION {[1..n -> Characters] : n \in 0..MaxText}

\* \s inside a paragraph
IsSpace(c) == c = " "
\* [.!?]
IsSentenceEnd(c) == c = "."

\* line 71: text.split('\n')
RECURSIVE SplitLines(_, _, _)
SplitLines(t, cur, acc) ==
    IF t = <<>> THEN Append(acc, cur)
    ELSE IF Head(t) = "\n" THEN SplitLines(Tail(t), <<>>, Append(acc, cur))
         ELSE SplitLines(Tail(t), Append(cur, Head(t)), acc)

\* the first position from i on that holds no white space
RECURSIVE SkipSpace(_, _)
SkipSpace(p, i) ==
    IF i <= Len(p) /\ IsSpace(p[i]) THEN SkipSpace(p, i + 1) ELSE i

\* line 84: re.split(r'(?<=[.!?])\s+', paragraph): the paragraph is cut at
\* every run of white space that follows a sentence end
RECURSIVE SplitSentences(_, _, _, _)
SplitSentences(p, i, cur, acc) ==
    IF i > Len(p) THEN Append(acc, cur)
    ELSE IF IsSpace(p[i]) /\ i > 1 /\ IsSentenceEnd(p[i - 1])
         THEN SplitSentences(p, SkipSpace(p, i), <<>>, Append(acc, cur))
         ELSE SplitSentences(p, i + 1, Append(cur, p[i]), acc)

Minimum(a, b) == IF a <= b THEN a ELSE b

\* lines 100-102: the pieces sentence[i : min(i + max, len)] for i in
\* range(0, len, step), step > 0
RECURSIVE ForcedPieces(_, _, _, _)
ForcedPieces(sentence, i, step, maxc) ==
    IF i >= Len(sentence) THEN <<>>
    ELSE <<SubSeq(sentence, i + 1, Minimum(i + maxc, Len(sentence)))>>
             \o ForcedPieces(sentence, i + step, step, maxc)

\* lines 87-104: one turn of the sentence loop.  st holds chunks,
\* temp_chunk, the steps of the forced splits so far and whether range()
\* has raised (ValueError: its step is zero).  The forced split leaves
\* temp_chunk as it is.
SentenceStep(st, sentence, maxc, ov) ==
    IF st.raised THEN st
    ELSE IF Len(st.temp_chunk) + Len(sentence) + 1 <= maxc
    THEN [st EXCEPT !.temp_chunk = IF @ # <<>> THEN @ \o <<" ">> \o sentence
                                   ELSE sentence]
    ELSE LET flushed == IF st.temp_chunk # <<>> THEN Append(st.chunks, st.temp_chunk)
                        ELSE st.chunks
             step == maxc - ov
         IN IF Len(sentence) > maxc
            THEN IF step = 0
                 THEN [st EXCEPT !.chunks = flushed, !.raised = TRUE,
                                 !.steps = @ \cup {step}]
                 ELSE [st EXCEPT !.chunks = flushed \o
                                     (IF step > 0
                                      THEN ForcedPieces(sentence, 0, step, maxc)
                                      ELSE <<>>),
                                 !.steps = @ \cup {step}]
            ELSE [st EXCEPT !.chunks = flushed, !.temp_chunk = sentence]

\* lines 87-104: for sentence in sentences
RECURSIVE SentenceLoop(_, _, _, _)
SentenceLoop(st, sentences, maxc, ov) ==
    IF sentences = <<>> THEN st
    ELSE SentenceLoop(SentenceStep(st, Head(sentences), maxc, ov),
                      Tail(sentences), maxc, ov)

\* lines 76-117: one turn of the paragraph loop.  st holds chunks,
\* current_chunk, steps and raised.
ParagraphStep(st, paragraph, maxc, ov) ==
    IF st.raised THEN st
    ELSE IF Len(paragraph) > maxc
    THEN LET flushed == IF st.current_chunk # <<>>
                        THEN Append(st.chunks, st.current_chunk)
                        ELSE st.chunks
             after == SentenceLoop([chunks |-> flushed, temp_chunk |-> <<>>,
                                    steps |-> st.steps, raised |-> FALSE],
                                   SplitSentences(paragraph, 1, <<>>, <<>>), maxc, ov)
         IN [chunks |-> after.chunks, current_chunk |-> after.temp_chunk,
             steps |-> after.steps, raised |-> after.raised]
    ELSE IF Len(st.current_chunk) + Len(paragraph) + 2 <= maxc
    THEN [st EXCEPT !.current_chunk = IF @ # <<>> THEN @ \o <<"\n", "\n">> \o paragraph
                                      ELSE paragraph]
    ELSE [st EXCEPT !.chunks = Append(@, st.current_chunk),
                    !.current_chunk = paragraph]

\* lines 76-117: for paragraph in paragraphs
RECURSIVE ParagraphLoop(_, _, _, _)
ParagraphLoop(st, paragraphs, maxc, ov) ==
    IF paragraphs = <<>> THEN st
    ELSE ParagraphLoop(ParagraphStep(st, Head(paragraphs), maxc, ov),
                       Tail(paragraphs), maxc, ov)

\* line 132: the end of the chunk before
PrevEnd(chunk, ov) ==
    IF Len(chunk) > ov THEN SubSeq(chunk, Len(chunk) - ov + 1, Len(chunk)) ELSE chunk

\* AddOverlap that repeats the whole chunk before
AddOverlapWhole(chunks, ov) ==
    IF ov > 0 /\ Len(chunks) > 1
    THEN [i \in 1..Len(chunks) |->
             IF i = 1 THEN chunks[1] ELSE chunks[i - 1] \o chunks[i]]
    ELSE chunks

\* lines 123-135: the overlap between the chunks
AddOverlap(chunks, ov) ==
    IF ov > 0 /\ Len(chunks) > 1
    THEN [i \in 1..Len(chunks) |->
             IF i = 1 THEN chunks[1] ELSE PrevEnd(chunks[i - 1], ov) \o chunks[i]]
    ELSE chunks

\* lines 56-137
split_text_into_chunks(t, maxc, ov) ==
    IF Len(t) <= maxc THEN [kind |-> "chunks", chunks |-> <<t>>, steps |-> {}]
    ELSE LET st == ParagraphLoop([chunks |-> <<>>, current_chunk |-> <<>>,
                                  steps |-> {}, raised |-> FALSE],
                                 SplitLines(t, <<>>, <<>>), maxc, ov)
             chunks == IF st.current_chunk # <<>> THEN Append(st.chunks, st.current_chunk)
                       ELSE st.chunks
         IN IF st.raised THEN [kind |-> "raised", chunks |-> <<>>, steps |-> st.steps]
            ELSE [kind |-> "chunks", chunks |-> AddOverlap(chunks, ov),
                  steps |-> st.steps]

\* TextProcessor(max_chunk_size, overlap_size) and the text it is given
InitChunk ==
    /\ input_text \in Texts
    /\ max_chunk_size \in 1..MaxChunk
    /\ overlap_size \in 0..MaxChunk
    /\ split_result = NotSplit
    /\ MergerIdle /\ ClientIdle /\ RateIdle /\ ExtractIdle /\ BatchIdle /\ GraphIdle /\ LateIdle

\* the call
SplitText ==
    /\ split_result = NotSplit
    /\ split_result' = split_text_into_chunks(input_text, max_chunk_size, overlap_size)
    /\ UNCHANGED <<input_text, max_chunk_size, overlap_size, exceptChunk>>

NextChunk == SplitText

SpecChunk == InitChunk /\ [][NextChunk]_vars

-----------------------------------------------------------------------------
(* Claims on split_text_into_chunks *)

\* the returned chunks
Chunks == split_result.chunks

\* the chunks without their overlap prefix: the first chunk as it is, and
\* each later chunk without the end of the base chunk before it
RECURSIVE RemoveOverlap(_, _, _)
RemoveOverlap(chunks, prev, ov) ==
    IF chunks = <<>> THEN <<>>
    ELSE LET k == Minimum(ov, Len(prev))
             base == SubSeq(Head(chunks), k + 1, Len(Head(chunks)))
         IN <<base>> \o RemoveOverlap(Tail(chunks), base, ov)

BaseChunks ==
    IF overlap_size > 0 /\ Len(Chunks) > 1
    THEN <<Chunks[1]>> \o RemoveOverlap(Tail(Chunks), Chunks[1], overlap_size)
    ELSE Chunks

RECURSIVE Flatten(_)
Flatten(seqs) == IF seqs = <<>> THEN <<>> ELSE Head(seqs) \o Flatten(Tail(seqs))

\* the characters of a text that are no separators
Content(t) == SelectSeq(t, LAMBDA c : c \notin {" ", "\n"})

\* C12: with max_chunk_size > overlap_size every chunk is at most
\* max_chunk_size + overlap_size long: it is an overlap prefix of at most
\* overlap_size characters, taken from the end of the chunk before, and a
\* base chunk of at most max_chunk_size characters.
ChunkLengthBounded ==
    split_result.kind = "chunks" /\ max_chunk_size > overlap_size =>
        /\ \A i \in 1..Len(Chunks) : Len(Chunks[i]) <= max_chunk_size + overlap_size
        /\ Len(BaseChunks) = Len(Chunks)
        /\ \A i \in 1..Len(Chunks) :
              /\ Len(BaseChunks[i]) <= max_chunk_size
              /\ Len(Chunks[i]) - Len(BaseChunks[i]) <= overlap_size
              /\ i > 1 => Chunks[i] = PrevEnd(BaseChunks[i - 1], overlap_size)
                                          \o BaseChunks[i]

\* reached: a chunk of max_chunk_size + overlap_size characters
ChunkLengthBoundedWitness ==
    /\ split_result.kind = "chunks" /\ max_chunk_size > overlap_size
    /\ overlap_size > 0
    /\ \E i \in 1..Len(Chunks) : Len(Chunks[i]) = max_chunk_size + overlap_size

\* C13: with max_chunk_size > overlap_size the chunks without their overlap
\* prefixes, put one after the other, hold the paragraphs and sentences of
\* the text in order, each once: their characters other than the separators
\* are those of the text.
ChunksReconstructText ==
    split_result.kind = "chunks" /\ max_chunk_size > overlap_size =>
        Content(Flatten(BaseChunks)) = Content(input_text)

\* C14: with max_chunk_size > overlap_size a text that is not empty gives at
\* least one chunk, the empty text gives exactly one.
AtLeastOneChunk ==
    split_result.kind = "chunks" /\ max_chunk_size > overlap_size =>
        /\ input_text # <<>> => Len(Chunks) >= 1
        /\ input_text = <<>> => Len(Chunks) = 1

\* C15: with overlap_size >= max_chunk_size the call ends, and it ends
\* either with the configuration rejected (it raises) or with every forced
\* split of an over-long sentence done in steps of a positive width, as with
\* a clamped overlap.
OverlapRejectedOrClamped ==
    split_result.kind # "none" /\ overlap_size >= max_chunk_size =>
        \/ split_result.kind = "raised"
        \/ \A step \in split_result.steps : step > 0

-----------------------------------------------------------------------------
(* EntityExtractor and RelationExtractor.  A JSON value is a record with   *)
(* its type t: an object with its members in the order of the text, an     *)
(* array, a string, a number (confidences in tenths) or null.              *)

Obj(items) == [t |-> "obj", items |-> items]
Arr(elems) == [t |-> "arr", elems |-> elems]
Str(s) == [t |-> "str", s |-> s]
Num(n) == [t |-> "num", n |-> n]
Null == [t |-> "null"]

\* key in dict
HasKey(o, key) == \E i \in 1..Len(o.items) : o.items[i][1] = key
\* dict[key]
Lookup(o, key) == o.items[CHOOSE i \in 1..Len(o.items) : o.items[i][1] = key][2]

NoSpan == [kind |-> "none", json |-> Null]
BadSpan == [kind |-> "bad", json |-> Null]
Span(v) == [kind |-> "json", json |-> v]

\* the value whose text starts at the first "{" of the text of v and ends
\* at the matching "}"
RECURSIVE FirstObject(_)
FirstObject(v) ==
    IF v.t = "obj" THEN Span(v)
    ELSE IF v.t = "arr"
    THEN LET found == {i \in 1..Len(v.elems) : FirstObject(v.elems[i]) # NoSpan}
         IN IF found = {} THEN NoSpan
            ELSE FirstObject(v.elems[CHOOSE i \in found : \A j \in found : i <= j])
    ELSE NoSpan

\* the value whose text starts at the first "[" of the text of v and ends
\* at the matching "]"
RECURSIVE FirstArray(_)
FirstArray(v) ==
    IF v.t = "arr" THEN Span(v)
    ELSE IF v.t = "obj"
    THEN LET found == {i \in 1..Len(v.items) : FirstArray(v.items[i][2]) # NoSpan}
         IN IF found = {} THEN NoSpan
            ELSE FirstArray(v.items[CHOOSE i \in found : \A j \in found : i <= j][2])
    ELSE NoSpan

\* The content of a completion, by what the extraction of the JSON text
\* makes of it:
\*   "missing": the message has no content;  "empty": the content is "";
\*   "prose": a text without brackets;  "unclosed": brackets that never
\*   close;  "fenced": a ```json block that holds the text of json;
\*   "bare": the text of json, alone or within prose without brackets;
\*   "malformed": a span of balanced brackets that is no JSON.
Content0(form) == [form |-> form, json |-> Null]
ContentOf(form, v) == [form |-> form, json |-> v]

\* entity_extractor.py lines 147-170 followed by json.loads (line 124)
ExtractJsonObject(content) ==
    IF content.form = "fenced" THEN Span(content.json)
    ELSE IF content.form = "bare" THEN FirstObject(content.json)
    ELSE IF content.form = "malformed" THEN BadSpan
    ELSE NoSpan

\* relation_extractor.py lines 182-218 followed by json.loads (line 143)
ExtractJsonArray(content) ==
    IF content.form = "fenced" THEN Span(content.json)
    ELSE IF content.form = "bare"
    THEN (IF FirstArray(content.json) # NoSpan THEN FirstArray(content.json)
          ELSE FirstObject(content.json))
    ELSE IF content.form = "malformed" THEN BadSpan
    ELSE NoSpan

\* line 57 of entity_extractor.py, line 70 of relation_extractor.py:
\* response.get("choices", [{}])[0].get("message", {}).get("content", "").
\* A body that is no object has no .get, an empty list has no element 0 and
\* a null message has no .get: the expression raises.
GetContent(response) ==
    IF response.choices \in {"not_object", "empty"} THEN [kind |-> "raised"]
    ELSE IF response.choices = "missing"
    THEN [kind |-> "content", content |-> Content0("missing")]
    ELSE IF response.message = "null" THEN [kind |-> "raised"]
    ELSE IF response.message = "missing"
    THEN [kind |-> "content", content |-> Content0("missing")]
    ELSE [kind |-> "content", content |-> response.content]

\* not content
IsEmptyContent(content) == content.form \in {"missing", "empty"}

\* entity_extractor.py lines 132-140: the entities that are objects with a
\* "text", each with "occurrences" (1 when it has none)
RECURSIVE ValidEntities(_)
ValidEntities(elems) ==
    IF elems = <<>> THEN <<>>
    ELSE LET entity == Head(elems)
         IN (IF entity.t = "obj" /\ HasKey(entity, "text")
             THEN <<IF HasKey(entity, "occurrences") THEN entity
                    ELSE Obj(Append(entity.items, <<"occurrences", Num(1)>>))>>
             ELSE <<>>)
            \o ValidEntities(Tail(elems))

\* entity_extractor.py lines 104-145: _parse_response.  A parsed value that
\* is no object makes the membership test or the subscript of line 128 find
\* nothing or raise before any list is taken, and the except branch returns
\* the default result.
ParseEntities(content, types) ==
    LET default == [ty \in Range(types) |-> <<>>]
        span == ExtractJsonObject(content)
    IN IF span.kind # "json" \/ span.json.t # "obj" THEN default
       ELSE [ty \in Range(types) |->
                IF HasKey(span.json, ty) /\ Lookup(span.json, ty).t = "arr"
                THEN ValidEntities(Lookup(span.json, ty).elems)
                ELSE <<>>]

\* entity_extractor.py lines 36-62
extract_entities(response, types) ==
    LET got == GetContent(response)
    IN IF got.kind = "raised" THEN [kind |-> "raised"]
       ELSE IF IsEmptyContent(got.content)
       THEN [kind |-> "entities", entities |-> [ty \in Range(types) |-> <<>>]]
       ELSE [kind |-> "entities", entities |-> ParseEntities(got.content, types)]

\* RELATION_TYPES of config.py: three of its labels
RELATION_TYPES == {"U6CBBU7597", "U6291U5236", "U76F8U5173"}

\* relation_extractor.py line 170: the confidence of a relation without one
MissingConfidence == 5

\* relation_extractor.py lines 163-166: source and target are objects with
\* "text" and "type"
EndpointsValid(relation) ==
    \A field \in {"source", "target"} :
        LET entity == Lookup(relation, field)
        IN entity.t = "obj" /\ HasKey(entity, "text") /\ HasKey(entity, "type")

\* relation_extractor.py lines 155-174: the relations that pass the
\* validation, each with a "confidence"
RECURSIVE ValidRelations(_)
ValidRelations(elems) ==
    IF elems = <<>> THEN <<>>
    ELSE LET relation == Head(elems)
             kept == IF HasKey(relation, "confidence") THEN relation
                     ELSE Obj(Append(relation.items,
                                     <<"confidence", Num(MissingConfidence)>>))
         IN (IF /\ relation.t = "obj"
                /\ \A k \in {"source", "target", "relation"} : HasKey(relation, k)
                /\ EndpointsValid(relation)
                /\ Lookup(relation, "relation").t = "str"
                /\ Lookup(relation, "relation").s \in RELATION_TYPES
             THEN <<kept>> ELSE <<>>)
            \o ValidRelations(Tail(elems))

\* relation_extractor.py lines 126-180: _parse_response.  A value that is
\* no list is replaced by its "relations" member; a string or an object in
\* that place is walked through without a relation found, a number or null
\* raises into the except branch.
ParseRelations(content) ==
    LET span == ExtractJsonArray(content)
        parsed_data == IF span.kind = "json" /\ span.json.t = "obj"
                          /\ HasKey(span.json, "relations")
                       THEN Lookup(span.json, "relations")
                       ELSE span.json
    IN IF span.kind = "json" /\ parsed_data.t = "arr"
       THEN ValidRelations(parsed_data.elems)
       ELSE <<>>

\* the number of entities of all types
RECURSIVE CountEntities(_, _)
CountEntities(entities, types) ==
    IF types = {} THEN 0
    ELSE LET ty == CHOOSE ty \in types : TRUE
         IN Len(entities[ty]) + CountEntities(entities, types \ {ty})

\* relation_extractor.py lines 36-75
extract_relations(response, entities) ==
    IF CountEntities(entities, DOMAIN entities) < 2
    THEN [kind |-> "relations", relations |-> <<>>, asked |-> FALSE]
    ELSE LET got == GetContent(response)
         IN IF got.kind = "raised" THEN [kind |-> "raised"]
            ELSE IF IsEmptyContent(got.content)
            THEN [kind |-> "relations", relations |-> <<>>, asked |-> TRUE]
            ELSE [kind |-> "relations", relations |-> ParseRelations(got.content),
                  asked |-> TRUE]

\* ---- the values the extractors are run on

\* {"text": ..., "occurrences": ...} and {"text": ...}
EntV(name, occ) == Obj(<< <<"text", Str(name)>>, <<"occurrences", Num(occ)>> >>)
EntVNoOcc(name) == Obj(<< <<"text", Str(name)>> >>)
\* {"text": ..., "type": ...}
RefV(name, ty) == Obj(<< <<"text", Str(name)>>, <<"type", Str(ty)>> >>)
\* {"source": ..., "target": ..., "relation": ..., "confidence": ...}; conf
\* is any JSON value
RelV(src, tgt, label, conf) ==
    Obj(<< <<"source", src>>, <<"target", tgt>>, <<"relation", Str(label)>>,
           <<"confidence", conf>> >>)
RelVNoConf(src, tgt, label) ==
    Obj(<< <<"source", src>>, <<"target", tgt>>, <<"relation", Str(label)>> >>)

\* three of the ENTITY_TYPES of config.py: disease, gene, drug
TypeDisease == "U75BEU75C5"
TypeGene == "U57FAU56E0"
TypeDrug == "U836FU7269"

RefIL6 == RefV("IL-6", TypeGene)
RefSilicosis == RefV("U77FDU80BA", TypeDisease)

\* an answer to the entity prompt: no drug key, an entity without
\* occurrences, a string and an object without text among the entities
EntityAnswer ==
    Obj(<< <<TypeDisease, Arr(<<EntV("U77FDU80BA", 5), EntVNoOcc("fibrosis"),
                                Str("asthma"), Obj(<< <<"name", Str("copd")>> >>)>>)>>,
           <<TypeGene, Arr(<<>>)>> >>)

\* an answer to the relation prompt: confidences 0.9, none, 1.5, -0.2 and
\* "high", a label that is not allowed, a string, a relation without target
\* and one whose source is a string
RelationAnswer ==
    Arr(<<RelV(RefIL6, RefSilicosis, "U76F8U5173", Num(9)),
          RelVNoConf(RefIL6, RefSilicosis, "U6291U5236"),
          RelV(RefIL6, RefSilicosis, "U6CBBU7597", Num(15)),
          RelV(RefSilicosis, RefIL6, "U76F8U5173", Num(-2)),
          RelV(RefSilicosis, RefIL6, "U6291U5236", Str("high")),
          RelV(RefIL6, RefSilicosis, "inhibits", Num(8)),
          Str("none"),
          Obj(<< <<"source", RefIL6>>, <<"relation", Str("U76F8U5173")>> >>),
          RelV(Str("IL-6"), RefSilicosis, "U76F8U5173", Num(7))>>)

\* an answer to the entity prompt whose occurrences are 0, negative and a
\* word
ZeroAnswer ==
    Obj(<< <<TypeGene, Arr(<<EntV("TNF", 0), EntV("TP53", -1),
                             Obj(<< <<"text", Str("IL-6")>>,
                                    <<"occurrences", Str("many")>> >>)>>)>> >>)

JsonValues ==
    { EntityAnswer,
      Obj(<< <<TypeDisease, Str("none")>>, <<TypeGene, Arr(<<EntV("IL-6", 2)>>)>> >>),
      Arr(<<EntityAnswer>>),
      Num(3),
      Arr(<<Str(TypeDisease)>>),
      RelationAnswer,
      Obj(<< <<"relations", Arr(<<RelV(RefIL6, RefSilicosis, "U76F8U5173", Num(4))>>)>> >>),
      Obj(<< <<"relations", Null>> >>),
      Obj(<< <<"note", Str("none")>> >>),
      ZeroAnswer }

Contents ==
    {Content0(form) : form \in {"missing", "empty", "prose", "unclosed", "malformed"}}
    \cup {ContentOf(form, v) : form \in {"fenced", "bare"}, v \in JsonValues}

\* what generate_completion can return: the body of a 200 answer, any JSON
\* value, or the empty-content result of its line 181
Completions ==
    {[choices |-> c, message |-> "none", content |-> Content0("missing")] :
        c \in {"not_object", "missing", "empty"}}
    \cup {[choices |-> "list", message |-> m, content |-> Content0("missing")] :
            m \in {"missing", "null"}}
    \cup {[choices |-> "list", message |-> "object", content |-> c] : c \in Contents}

AllowedTypeLists ==
    {<<TypeDisease>>, <<TypeDisease, TypeGene>>, <<TypeDisease, TypeGene, TypeDrug>>}

\* the entities handed to extract_relations: none, one, two
EntityArgs ==
    { [ty \in {TypeDisease, TypeGene} |-> <<>>],
      [ty \in {TypeDisease, TypeGene} |->
          IF ty = TypeGene THEN <<EntV("IL-6", 2)>> ELSE <<>>],
      [ty \in {TypeDisease, TypeGene} |->
          IF ty = TypeGene THEN <<EntV("IL-6", 2)>> ELSE <<EntV("U77FDU80BA", 5)>>] }

InitExtract ==
    /\ completion \in Completions
    /\ allowed_types \in AllowedTypeLists
    /\ entities_arg \in EntityArgs
    /\ extracted = NotExtracted /\ xpc = "start"
    /\ MergerIdle /\ ClientIdle /\ RateIdle /\ ChunkIdle /\ BatchIdle /\ GraphIdle /\ LateIdle

\* EntityExtractor(allowed_types).extract_entities(text)
ExtractEntities ==
    /\ xpc = "start"
    /\ extracted' = extract_entities(completion, allowed_types)
    /\ xpc' = "entities"
    /\ UNCHANGED <<completion, allowed_types, entities_arg, exceptExtract>>

\* RelationExtractor().extract_relations(text, entities)
ExtractRelations ==
    /\ xpc = "start"
    /\ extracted' = extract_relations(completion, entities_arg)
    /\ xpc' = "relations"
    /\ UNCHANGED <<completion, allowed_types, entities_arg, exceptExtract>>

NextExtract == ExtractEntities \/ ExtractRelations

SpecExtract == InitExtract /\ [][NextExtract]_vars

\* C16: for every result the client can hand back - empty content, content
\* that is no JSON, JSON of the wrong shape or without some type keys, a body
\* without "choices" or with an empty "choices" list - extract_entities
\* raises nothing and returns a map with one list per allowed type and no
\* other entry.
ExtractEntitiesTotal ==
    xpc = "entities" /\ completion.choices \in {"missing", "empty", "list"}
                     /\ completion.message # "null" =>
        /\ extracted.kind = "entities"
        /\ DOMAIN extracted.entities = Range(allowed_types)

\* C23 (extractor stage): every entity extract_entities returns has an
\* occurrences field that is a number >= 1, whatever the answer held.
ExtractedOccurrencesPositive ==
    xpc = "entities" /\ extracted.kind = "entities" =>
        \A ty \in DOMAIN extracted.entities :
            \A i \in 1..Len(extracted.entities[ty]) :
                LET occurrences == Lookup(extracted.entities[ty][i], "occurrences")
                IN occurrences.t = "num" /\ occurrences.n >= 1

\* C17: every relation extract_relations returns has a confidence that is a
\* number of [0,1].
ConfidenceInRange ==
    xpc = "relations" /\ extracted.kind = "relations" =>
        \A i \in 1..Len(extracted.relations) :
            LET confidence == Lookup(extracted.relations[i], "confidence")
            IN /\ confidence.t = "num"
               /\ confidence.n >= 0 /\ confidence.n <= 10

-----------------------------------------------------------------------------
(* process_batch of batch_process.py, with the pipeline of pubmed_main.py  *)
(* as far as its output files and its outcome go.  An input path is a      *)
(* directory and a file name, the name as its parts between the dots.      *)

\* most input files of one batch
MaxBatch == 3
\* largest max_workers tried
MaxWorkers == 2

InputPath(dir, name) == [dir |-> dir, name |-> name]

\* the files that glob (batch_process.py lines 153-159) or os.walk
\* (kg_app.py) can find: two of the same name in different directories, and
\* two that differ after the first dot only
InputPool ==
    { InputPath("data/run1", <<"batch_1", "json">>),
      InputPath("data/run2", <<"batch_1", "json">>),
      InputPath("data/run1", <<"batch_1", "v2", "json">>),
      InputPath("data/run1", <<"batch_2", "json">>) }

\* lists of distinct paths
InputLists ==
    {l \in UNION {[1..n -> InputPool] : n \in 1..MaxBatch} :
        \A i, j \in 1..Len(l) : i # j => l[i] # l[j]}

\* What the pipeline of a file does: "ok" writes its output files and
\* returns the result; "no_text" returns {"error": ...} at line 52 of
\* pubmed_main.py; "raises" ends in an exception before it writes.
Fates == {"ok", "no_text", "raises"}

\* lines 64 and 84: os.path.basename(file_path).split('.')[0]
BaseName(file) == file.name[1]
\* pubmed_main.py lines 101-102: os.path.splitext(file_name)[0]
file_base(file) == SubSeq(file.name, 1, Len(file.name) - 1)
\* pubmed_main.py line 103, under the output_dir of lines 64 and 84: the
\* directory the pipeline writes its files into
output_path(file) == <<BaseName(file), file_base(file)>>

\* line 54: the branch taken
Concurrent == parallel /\ Len(input_files) > 1

ResultOk == [kind |-> "result", message |-> ""]
ResultError(message) == [kind |-> "error", message |-> message]
Abort == [kind |-> "abort", message |-> ""]

\* Recorded without the except branches: the exception leaves process_batch
RecordedUncaught(fate) ==
    IF fate = "ok" THEN ResultOk
    ELSE IF fate = "no_text" THEN ResultError("Could not extract text content")
    ELSE Abort

\* lines 72-78 and 83-90: what is stored in results for a file
Recorded(fate) ==
    IF fate = "ok" THEN ResultOk
    ELSE IF fate = "no_text" THEN ResultError("Could not extract text content")
    ELSE ResultError("exception")

\* results[key] = value
SetItem(d, key, value) ==
    [k \in DOMAIN d \cup {key} |-> IF k = key THEN value ELSE d[k]]

Positions == 1..Len(input_files)

InitBatch ==
    /\ input_files \in InputLists
    /\ parallel \in BOOLEAN
    /\ max_workers \in 1..MaxWorkers
    /\ fates \in [1..Len(input_files) -> Fates]
    /\ workers = [i \in 1..Len(input_files) |-> "queued"]
    /\ writers = <<>> /\ results = <<>>
    /\ summary = NoSummary /\ bpc = "running"
    /\ MergerIdle /\ ClientIdle /\ RateIdle /\ ChunkIdle /\ ExtractIdle /\ GraphIdle /\ LateIdle

\* lines 58-67: a worker of the pool takes the next submitted file, or
\* line 85: the loop calls the pipeline of the next file
StartFile(i) ==
    /\ bpc = "running" /\ workers[i] = "queued"
    /\ \A j \in 1..(i - 1) : workers[j] # "queued"
    /\ IF Concurrent
       THEN Cardinality({j \in Positions : workers[j] \in {"running", "writing"}})
                < max_workers
       ELSE \A j \in 1..(i - 1) : workers[j] = "collected"
    /\ workers' = [workers EXCEPT ![i] = "running"]
    /\ UNCHANGED <<input_files, parallel, max_workers, fates, writers, results,
                   summary, bpc, exceptBatch>>

\* pubmed_main.py lines 106-118: the pipeline writes its files
WriteOutputs(i) ==
    /\ bpc = "running" /\ workers[i] = "running" /\ fates[i] = "ok"
    /\ workers' = [workers EXCEPT ![i] = "writing"]
    /\ LET dir == output_path(input_files[i])
       IN writers' = SetItem(writers, dir,
                             (IF dir \in DOMAIN writers THEN writers[dir] ELSE {})
                                 \cup {i})
    /\ UNCHANGED <<input_files, parallel, max_workers, fates, results,
                   summary, bpc, exceptBatch>>

\* pubmed_main.py lines 52 and 125: the pipeline returns, or it raises
EndFile(i) ==
    /\ bpc = "running"
    /\ \/ workers[i] = "writing"
       \/ workers[i] = "running" /\ fates[i] # "ok"
    /\ workers' = [workers EXCEPT ![i] = "finished"]
    /\ UNCHANGED <<input_files, parallel, max_workers, fates, writers, results,
                   summary, bpc, exceptBatch>>

\* lines 70-78 and 83-90: the result of a file is stored
Collect(i) ==
    /\ bpc = "running" /\ workers[i] = "finished"
    /\ workers' = [workers EXCEPT ![i] = "collected"]
    /\ LET r == Recorded(fates[i])
       IN IF r = Abort
          THEN bpc' = "aborted" /\ UNCHANGED results
          ELSE bpc' = bpc /\ results' = SetItem(results, input_files[i], r)
    /\ UNCHANGED <<input_files, parallel, max_workers, fates, writers,
                   summary, exceptBatch>>

\* lines 93-103: the summary
Summarize ==
    /\ bpc = "running" /\ \A i \in Positions : workers[i] = "collected"
    /\ summary' =
          [total_files |-> Len(input_files),
           successful_files |->
               Cardinality({f \in DOMAIN results : results[f].kind # "error"}),
           failed_files |->
               Cardinality({f \in DOMAIN results : results[f].kind = "error"})]
    /\ bpc' = "done"
    /\ UNCHANGED <<input_files, parallel, max_workers, fates, workers, writers,
                   results, exceptBatch>>

NextBatch ==
    \/ \E i \in Positions : StartFile(i)
    \/ \E i \in Positions : WriteOutputs(i)
    \/ \E i \in Positions : EndFile(i)
    \/ \E i \in Positions : Collect(i)
    \/ Summarize

SpecBatch == InitBatch /\ [][NextBatch]_vars

\* C18: the batch is never left by the failure of a file; when it is done,
\* every input file has run and has one entry in results, {"error": ...} if
\* its pipeline raised or returned an error and its result otherwise, and
\* the summary counts them: successful_files + failed_files = total_files =
\* the number of input files.
BatchAccountsForEveryFile ==
    /\ bpc # "aborted"
    /\ bpc = "done" =>
          /\ \A i \in Positions : workers[i] = "collected"
          /\ DOMAIN results = Range(input_files)
          /\ \A i \in Positions :
                results[input_files[i]].kind =
                    (IF fates[i] = "ok" THEN "result" ELSE "error")
          /\ summary.total_files = Len(input_files)
          /\ summary.successful_files + summary.failed_files = summary.total_files
          /\ summary.failed_files = Cardinality({i \in Positions : fates[i] # "ok"})

\* reached: a parallel batch is done in which the first file raised, another
\* returned an error and a third succeeded
BatchAccountsForEveryFileWitness ==
    /\ bpc = "done" /\ Concurrent
    /\ fates[1] = "raises"
    /\ summary.failed_files = 2 /\ summary.successful_files = 1
    /\ \E i \in Positions : fates[i] = "no_text"

\* C19: in a parallel batch no output directory, and so no output file, is
\* written by the pipelines of two input files.
SingleWriter ==
    Concurrent => \A dir \in DOMAIN writers : Cardinality(writers[dir]) <= 1

-----------------------------------------------------------------------------
(* KnowledgeGraphBuilder.build_graph of kg_builder.py.  The graph is a     *)
(* networkx MultiDiGraph: its nodes with their attributes, and its edges   *)
(* in the order they were added, parallel edges kept.                      *)

\* longest relation list of a fragment
MaxRelations == 3

\* the order in which the entity types of a fragment are walked
TypeOrder == <<"Gene", "Disease", "Drug">>

\* line 51-52: the entities of self.data as (type, entity), in loop order
RECURSIVE FlatEntities(_, _)
FlatEntities(entities, order) ==
    IF order = <<>> THEN <<>>
    ELSE (IF Head(order) \in DOMAIN entities
          THEN [i \in 1..Len(entities[Head(order)]) |->
                   <<Head(order), entities[Head(order)][i]>>]
          ELSE <<>>)
         \o FlatEntities(entities, Tail(order))

\* graph.has_node(n)
has_node(g, n) == n \in DOMAIN g.nodes

\* lines 54-63: one entity.  `a or b` is b when a is empty.
add_entity(g, entity_type, entity) ==
    LET first == Get(entity, "text", <<>>)
        entity_text == IF first # <<>> THEN first ELSE Get(entity, "name", <<>>)
    IN IF entity_text = <<>> \/ has_node(g, entity_text) THEN g
       ELSE [g EXCEPT !.nodes = Put(@, entity_text,
                                    [type |-> entity_type,
                                     occurrences |-> Get(entity, "occurrences", 1)])]

Edge(source, target, label, weight) ==
    [source |-> source, target |-> target, label |-> label, weight |-> weight]

\* add_edge of a DiGraph: an edge between the same pair is replaced
add_edge_simple(g, source, target, label, weight) ==
    [g EXCEPT !.edges =
        Append(SelectSeq(@, LAMBDA e : ~(e.source = source /\ e.target = target)),
               Edge(source, target, label, weight))]

\* lines 79-81: MultiDiGraph.add_edge adds one more edge
add_edge(g, source, target, label, weight) ==
    [g EXCEPT !.edges = Append(@, Edge(source, target, label, weight))]

\* line 81: relation.get('confidence', 0.5), in tenths
default_weight == 5

\* lines 67-81: one relation
add_relation(g, relation) ==
    LET source == Get(Get(relation, "source", <<>>), "text", <<>>)
        target == Get(Get(relation, "target", <<>>), "text", <<>>)
        relation_type == Get(relation, "relation", "")
    IN IF source = <<>> \/ target = <<>> \/ relation_type = "" THEN g
       ELSE IF ~has_node(g, source) \/ ~has_node(g, target) THEN g
       ELSE add_edge(g, source, target, relation_type,
                     Get(relation, "confidence", default_weight))

\* ---- the fragments a graph is built from

GraphEntities ==
    { [Gene |-> <<Ent(IL6, 2)>>, Disease |-> <<Ent(Silicosis, 5)>>],
      [Gene |-> <<Ent(IL6, 2), EntNoOcc(TNF), Ent(<<>>, 1), [name |-> TP53]>>,
       Disease |-> <<Ent(Silicosis, 5)>>, Drug |-> <<Ent(IL6, 1)>>],
      [Disease |-> <<Ent(Silicosis, 3)>>] }

\* relations between present and absent entities, with two labels for one
\* pair, without confidence, without label, with an empty label, without
\* source
GraphRelations ==
    { Rel(Ref(IL6, "Gene"), Ref(Silicosis, "Disease"), "U76F8U5173", 9),
      Rel(Ref(IL6, "Gene"), Ref(Silicosis, "Disease"), "U6291U5236", 7),
      RelNoConf(Ref(Silicosis, "Disease"), Ref(Silicosis, "Disease"), "U76F8U5173"),
      Rel(Ref(IL6, "Gene"), Ref(Aspirin, "Drug"), "U6291U5236", 8),
      Rel(Ref(Aspirin, "Drug"), Ref(Silicosis, "Disease"), "U6CBBU7597", 8),
      [source |-> Ref(IL6, "Gene"), target |-> Ref(Silicosis, "Disease"),
       confidence |-> 6],
      Rel(Ref(IL6, "Gene"), Ref(Silicosis, "Disease"), "", 6),
      [target |-> Ref(Silicosis, "Disease"), relation |-> "U76F8U5173",
       confidence |-> 6] }

GraphData ==
    {[entities |-> e, relations |-> r] :
        e \in GraphEntities,
        r \in UNION {[1..n -> GraphRelations] : n \in 0..MaxRelations}}

\* the next item of build_graph from a position on: the entity loop, then
\* the relation loop, then the end
Position(d, loop, i) ==
    IF loop = "entities" /\ i <= Len(FlatEntities(d.entities, TypeOrder))
    THEN [loop |-> "entities", i |-> i]
    ELSE LET k == IF loop = "entities" THEN 1 ELSE i
         IN IF k <= Len(d.relations) THEN [loop |-> "relations", i |-> k]
            ELSE [loop |-> "done", i |-> 0]

\* KnowledgeGraphBuilder(json_file_path): lines 26-30
InitGraph ==
    /\ self_data \in GraphData
    /\ self_graph = EmptyGraph
    /\ gpc = Position(self_data, "entities", 1)
    /\ MergerIdle /\ ClientIdle /\ RateIdle /\ ChunkIdle /\ ExtractIdle /\ BatchIdle /\ LateIdle

\* lines 51-63: one turn of the entity loops
AddNode ==
    /\ gpc.loop = "entities"
    /\ LET item == FlatEntities(self_data.entities, TypeOrder)[gpc.i]
       IN self_graph' = add_entity(self_graph, item[1], item[2])
    /\ gpc' = Position(self_data, "entities", gpc.i + 1)
    /\ UNCHANGED <<self_data, exceptGraph>>

\* lines 66-81: one turn of the relation loop
AddEdge ==
    /\ gpc.loop = "relations"
    /\ self_graph' = add_relation(self_graph, self_data.relations[gpc.i])
    /\ gpc' = Position(self_data, "relations", gpc.i + 1)
    /\ UNCHANGED <<self_data, exceptGraph>>

NextGraph == AddNode \/ AddEdge

SpecGraph == InitGraph /\ [][NextGraph]_vars

\* ---- what the built graph is measured against

SourceText(r) == Get(Get(r, "source", <<>>), "text", <<>>)
TargetText(r) == Get(Get(r, "target", <<>>), "text", <<>>)
Label(r) == Get(r, "relation", "")

\* both endpoints of the relation are nodes of the built graph
EndpointsPresent(r) ==
    /\ SourceText(r) \in DOMAIN self_graph.nodes
    /\ TargetText(r) \in DOMAIN self_graph.nodes

Built == gpc.loop = "done"

\* the edges as (source, target, label), in the order they were added
EdgeList ==
    [i \in 1..Len(self_graph.edges) |->
        <<self_graph.edges[i].source, self_graph.edges[i].target,
          self_graph.edges[i].label>>]

\* the edges a list of relations stands for, one each, in order
EdgesOf(rs) == [i \in 1..Len(rs) |-> <<SourceText(rs[i]), TargetText(rs[i]), Label(rs[i])>>]

\* C20 as stated: after build_graph the edges are exactly the relations whose
\* source.text and target.text are both nodes, one directed edge each
\* (parallel edges kept), so the edge count is the number of such relations.
EdgePerRelationWithEndpoints ==
    Built => EdgeList = EdgesOf(SelectSeq(self_data.relations, EndpointsPresent))

\* C20: after build_graph the edges are exactly the relations that carry a
\* non-empty relation label and whose source.text and target.text are both
\* nodes, one directed edge source->target each, parallel edges between the
\* same pair kept; a relation with a missing endpoint or without a label has
\* no edge, and the edge count is the number of the labelled relations with
\* both endpoints present.
EdgePerLabelledRelationWithEndpoints ==
    Built => EdgeList = EdgesOf(SelectSeq(self_data.relations,
                                          LAMBDA r : EndpointsPresent(r) /\ Label(r) # ""))

\* a built graph with two parallel edges of different labels between one
\* pair of nodes, from a fragment with a relation whose endpoint is missing
EdgePerLabelledRelationWithEndpointsWitness ==
    /\ Built
    /\ Len(self_graph.edges) = 2
    /\ self_graph.edges[1].source = self_graph.edges[2].source
    /\ self_graph.edges[1].target = self_graph.edges[2].target
    /\ self_graph.edges[1].label # self_graph.edges[2].label
    /\ \E i \in 1..Len(self_data.relations) :
          /\ ~EndpointsPresent(self_data.relations[i])
          /\ Label(self_data.relations[i]) # ""

-----------------------------------------------------------------------------
(* The command lines: main() of batch_process.py and of merge_kg_files.py, *)
(* each run as a script (`if __name__ == "__main__": main()`), up to the   *)
(* exit code of the process.                                               *)

\* most input files a command finds
MaxFound == 3

\* the exit code of a script whose main() returns
ExitReturn == 0
\* the exit code of parser.parse_args() on a wrong command line
ExitUsage == 2

\* what load_json_file does with a file found by find_kg_files
LoadFates == {"loads", "broken"}

Commands == {"batch", "merge"}

\* what glob.glob / find_kg_files may find for a command
FoundLists(command) ==
    UNION {[1..n -> IF command = "batch" THEN Fates ELSE LoadFates] : n \in 0..MaxFound}

\* process_batch lines 97-98: the files recorded with an "error"
FailedFiles(found) ==
    Cardinality({i \in 1..Len(found) : Recorded(found[i]).kind = "error"})

Run(command, argv_ok, found) ==
    [kind |-> "run", command |-> command, argv_ok |-> argv_ok, found |-> found,
     pc |-> "start", exit_code |-> -1, message |-> FALSE, failed |-> 0]

InitCli ==
    /\ \E command \in Commands, argv_ok \in BOOLEAN :
          \E found \in FoundLists(command) : cli = Run(command, argv_ok, found)
    /\ csv = Unused /\ norm = Unused /\ doc = Unused /\ built_once = Unused /\ extractor = Unused
    /\ MergerIdle /\ ClientIdle /\ RateIdle /\ ChunkIdle /\ ExtractIdle /\ BatchIdle
    /\ GraphIdle

exceptCli == <<mergeVars, chain, clientVars, rateVars, chunkVars, extractVars, batchVars,
               graphVars, csv, norm, doc, built_once, extractor>>

\* the process ends with a code, after a message or not
Exit(code, message, failed) ==
    cli' = [cli EXCEPT !.pc = "exit", !.exit_code = code, !.message = message,
                       !.failed = failed]

\* args = parser.parse_args(): a wrong command line prints the usage and
\* exits with code 2
ParseArgs ==
    /\ cli.kind = "run" /\ cli.pc = "start"
    /\ IF cli.argv_ok THEN cli' = [cli EXCEPT !.pc = "find"]
       ELSE Exit(ExitUsage, TRUE, 0)
    /\ UNCHANGED exceptCli

\* batch_process.py lines 152-163: no input file, a message and `return`
BatchNoInput ==
    /\ cli.kind = "run" /\ cli.pc = "find" /\ cli.command = "batch"
    /\ cli.found = <<>>
    /\ Exit(ExitReturn, TRUE, 0)
    /\ UNCHANGED exceptCli

\* batch_process.py lines 165-175: process_batch over the files, then the
\* end of main()
BatchRun ==
    /\ cli.kind = "run" /\ cli.pc = "find" /\ cli.command = "batch"
    /\ cli.found # <<>>
    /\ Exit(ExitReturn, FALSE, FailedFiles(cli.found))
    /\ UNCHANGED exceptCli

\* merge_kg_files.py lines 505-509: no file, logger.error and `return`
MergeNoInput ==
    /\ cli.kind = "run" /\ cli.pc = "find" /\ cli.command = "merge"
    /\ cli.found = <<>>
    /\ Exit(ExitReturn, TRUE, 0)
    /\ UNCHANGED exceptCli

\* merge_kg_files.py lines 511-543: the merge and the save, then the end
\* of main(); a file that does not load is skipped by merge_kg_data
MergeRun ==
    /\ cli.kind = "run" /\ cli.pc = "find" /\ cli.command = "merge"
    /\ cli.found # <<>>
    /\ Exit(ExitReturn, FALSE,
            Cardinality({i \in 1..Len(cli.found) : cli.found[i] = "broken"}))
    /\ UNCHANGED exceptCli

NextCli == ParseArgs \/ BatchNoInput \/ BatchRun \/ MergeNoInput \/ MergeRun

SpecCli == InitCli /\ [][NextCli]_vars

Exited == cli.kind = "run" /\ cli.pc = "exit"

\* C21: a command with a valid command line that finds no input file ends
\* with a non-zero exit code and a message; one that finds input files ends
\* with exit code 0, whatever number of its files failed.
ExitCodeTellsNoInput ==
    Exited /\ cli.argv_ok =>
        /\ cli.found = <<>> => cli.exit_code # 0 /\ cli.message
        /\ cli.found # <<>> => cli.exit_code = 0

-----------------------------------------------------------------------------
(* OutputFormatter.format_output of utils/output_formatter.py, for the     *)
(* formats json and csv: the files it leaves in the output directory.      *)

\* lines 124-132: one row per entity, in the order of the loops; the id is
\* the type and the number of the row
EntitiesRows(entities) ==
    LET flat == FlatEntities(entities, TypeOrder)
    IN [i \in 1..Len(flat) |->
           [entity_id |-> <<flat[i][1], i>>,
            text |-> Get(flat[i][2], "text", <<>>),
            type |-> flat[i][1],
            occurrences |-> Get(flat[i][2], "occurrences", 1)]]

\* an id map keyed by the text alone
entity_id_map_by_text(rows) ==
    LET keys == {<<rows[i].text, "">> : i \in 1..Len(rows)} \cup
                {<<rows[i].text, t>> : i \in 1..Len(rows), t \in {"Gene", "Disease", "Drug"}}
    IN [k \in keys |->
           rows[CHOOSE i \in 1..Len(rows) :
                   /\ rows[i].text = k[1]
                   /\ \A j \in 1..Len(rows) : rows[j].text = k[1] => j <= i].entity_id]

\* lines 139-144: (text, type) -> entity id; a later row of the same key
\* replaces an earlier one
entity_id_map(rows) ==
    LET keys == {<<rows[i].text, rows[i].type>> : i \in 1..Len(rows)}
    IN [k \in keys |->
           rows[CHOOSE i \in 1..Len(rows) :
                   /\ <<rows[i].text, rows[i].type>> = k
                   /\ \A j \in 1..Len(rows) :
                         <<rows[j].text, rows[j].type>> = k => j <= i].entity_id]

\* entity_id_map.get(key, "")
NoId == <<>>
IdOf(id_map, text, type) ==
    IF <<text, type>> \in DOMAIN id_map THEN id_map[<<text, type>>] ELSE NoId

\* lines 148-169: the row of relation i, or no row
RelationRow(id_map, i, relation) ==
    LET source == Get(relation, "source", <<>>)
        target == Get(relation, "target", <<>>)
        source_text == Get(source, "text", <<>>)
        source_type == Get(source, "type", "")
        target_text == Get(target, "text", <<>>)
        target_type == Get(target, "type", "")
        source_id == IdOf(id_map, source_text, source_type)
        target_id == IdOf(id_map, target_text, target_type)
    IN IF source_id # NoId /\ target_id # NoId
       THEN <<[relation_id |-> i, source_id |-> source_id, source_text |-> source_text,
               target_id |-> target_id, target_text |-> target_text,
               relation_type |-> Get(relation, "relation", ""),
               confidence |-> Get(relation, "confidence", DefaultConfidence)]>>
       ELSE <<>>

RECURSIVE RelationsRowsFrom(_, _, _)
RelationsRowsFrom(id_map, relations, i) ==
    IF i > Len(relations) THEN <<>>
    ELSE RelationRow(id_map, i, relations[i]) \o RelationsRowsFrom(id_map, relations, i + 1)

\* lines 146-169: relations_rows
RelationsRows(entities, relations) ==
    RelationsRowsFrom(entity_id_map(EntitiesRows(entities)), relations, 1)

\* lines 72-81: kg_data without its metadata
KgData(entities, relations) == [entities |-> entities, relations |-> relations]

\* ---- the calls

CsvEntities ==
    { [Gene |-> <<Ent(IL6, 2)>>, Disease |-> <<Ent(Silicosis, 5)>>],
      [Gene |-> <<Ent(IL6, 2), Ent(TNF, 1), Ent(IL6, 1)>>, Drug |-> <<Ent(Silicosis, 1)>>],
      [Disease |-> <<Ent(Silicosis, 3)>>, Drug |-> <<Ent(Aspirin, 1), Ent(IL6, 1)>>] }

\* relations with both endpoints among the entities, with an unknown
\* endpoint, with the type of another entity of the same text, without
\* source, without confidence
CsvRelations ==
    { Rel(Ref(IL6, "Gene"), Ref(Silicosis, "Disease"), "U76F8U5173", 9),
      Rel(Ref(IL6, "Gene"), Ref(IL6, "Gene"), "U6291U5236", 7),
      Rel(Ref(TP53, "Gene"), Ref(Silicosis, "Disease"), "U76F8U5173", 8),
      Rel(Ref(IL6, "Drug"), Ref(Silicosis, "Drug"), "U6CBBU7597", 12),
      RelNoConf(Ref(Aspirin, "Drug"), Ref(Silicosis, "Disease"), "U6CBBU7597"),
      [target |-> Ref(Silicosis, "Disease"), relation |-> "U76F8U5173",
       confidence |-> 6] }

OutputFormats == {"json", "csv"}

\* a file that is not written
NoFile == [written |-> FALSE, rows |-> <<>>]
File(content) == [written |-> TRUE, rows |-> content]

FormatCall(output_format, entities, relations) ==
    [kind |-> "call", output_format |-> output_format,
     entities |-> entities, relations |-> relations, pc |-> "start",
     entities_csv |-> NoFile, relations_csv |-> NoFile,
     kg_json |-> NoFile, entities_json |-> NoFile, relations_json |-> NoFile]

InitCsv ==
    /\ \E output_format \in OutputFormats, entities \in CsvEntities :
          \E relations \in UNION {[1..n -> CsvRelations] : n \in 0..MaxRelations} :
              csv = FormatCall(output_format, entities, relations)
    /\ cli = Unused /\ norm = Unused /\ doc = Unused /\ built_once = Unused /\ extractor = Unused
    /\ MergerIdle /\ ClientIdle /\ RateIdle /\ ChunkIdle /\ ExtractIdle /\ BatchIdle
    /\ GraphIdle

exceptCsv == <<mergeVars, chain, clientVars, rateVars, chunkVars, extractVars, batchVars,
               graphVars, cli, norm, doc, built_once, extractor>>

\* lines 37-54: the branch of format_output
Dispatch ==
    /\ csv.kind = "call" /\ csv.pc = "start"
    /\ csv' = [csv EXCEPT !.pc = IF csv.output_format = "csv" THEN "entities_csv"
                                 ELSE "json"]
    /\ UNCHANGED exceptCsv

\* lines 123-136: entities.csv
SaveEntitiesCsv ==
    /\ csv.kind = "call" /\ csv.pc = "entities_csv"
    /\ csv' = [csv EXCEPT !.entities_csv = File(EntitiesRows(csv.entities)),
                          !.pc = "relations_csv"]
    /\ UNCHANGED exceptCsv

\* lines 138-173: relations.csv (and metadata.csv, lines 175-178)
SaveRelationsCsv ==
    /\ csv.kind = "call" /\ csv.pc = "relations_csv"
    /\ csv' = [csv EXCEPT !.relations_csv = File(RelationsRows(csv.entities, csv.relations)),
                          !.pc = "json"]
    /\ UNCHANGED exceptCsv

\* _save_json, lines 71-98, called at line 41 or at line 181
SaveJson ==
    /\ csv.kind = "call" /\ csv.pc = "json"
    /\ csv' = [csv EXCEPT !.kg_json = File(KgData(csv.entities, csv.relations)),
                          !.entities_json = File(csv.entities),
                          !.relations_json = File(csv.relations),
                          !.pc = "done"]
    /\ UNCHANGED exceptCsv

NextCsv == Dispatch \/ SaveEntitiesCsv \/ SaveRelationsCsv \/ SaveJson

SpecCsv == InitCsv /\ [][NextCsv]_vars

\* ---- what the files are measured against

\* the entity ids of the entities.csv rows that carry this text and type
IdsOf(ref) ==
    {csv.entities_csv.rows[k].entity_id : k \in
        {k \in 1..Len(csv.entities_csv.rows) :
            /\ "text" \in DOMAIN ref /\ "type" \in DOMAIN ref
            /\ csv.entities_csv.rows[k].text = ref.text
            /\ csv.entities_csv.rows[k].type = ref.type}}

\* both endpoints of the relation match an entity of the call
Resolvable(r) ==
    /\ "source" \in DOMAIN r /\ "target" \in DOMAIN r
    /\ IdsOf(r.source) # {} /\ IdsOf(r.target) # {}

CsvDone == csv.kind = "call" /\ csv.output_format = "csv" /\ csv.pc = "done"

\* C22: after a csv call, knowledge_graph.json and relations.json hold every
\* input relation, and relations.csv holds, in input order, exactly the
\* relations whose two endpoints match an entity by (text, type), each with
\* entity ids of entities of that text and type.
CsvDropsOnlyUnresolved ==
    CsvDone =>
        /\ csv.kg_json.written /\ csv.kg_json.rows.relations = csv.relations
        /\ csv.relations_json.written /\ csv.relations_json.rows = csv.relations
        /\ LET rows == csv.relations_csv.rows
               kept == {i \in 1..Len(csv.relations) : Resolvable(csv.relations[i])}
           IN /\ csv.relations_csv.written
              /\ {rows[k].relation_id : k \in 1..Len(rows)} = kept
              /\ Len(rows) = Cardinality(kept)
              /\ \A k \in 1..Len(rows) :
                    /\ rows[k].source_id \in IdsOf(csv.relations[rows[k].relation_id].source)
                    /\ rows[k].target_id \in IdsOf(csv.relations[rows[k].relation_id].target)
                    /\ k > 1 => rows[k - 1].relation_id < rows[k].relation_id

\* a csv call that left a relation out of relations.csv and kept another
CsvDropsOnlyUnresolvedWitness ==
    /\ CsvDone
    /\ Len(csv.relations) = MaxRelations
    /\ Len(csv.relations_csv.rows) \in 1..(MaxRelations - 1)
    /\ Len(csv.relations_json.rows) = MaxRelations
    /\ \E i \in 1..Len(csv.relations) :
          /\ ~Resolvable(csv.relations[i])
          /\ "source" \in DOMAIN csv.relations[i]
          /\ \E k \in 1..Len(csv.entities_csv.rows) :
                csv.entities_csv.rows[k].text = csv.relations[i].source.text

-----------------------------------------------------------------------------
(* normalize_entity_text of merge_kg_files.py on its own: one call on one  *)
(* text.                                                                   *)

\* most pieces a text is made of
MaxPieces == 3

\* the pieces the texts are made of
Pieces ==
    { <<"T", "h", "e", " ">>, <<"t", "h", "e", " ">>, IL6, <<"a">>, <<" ">>,
      <<" ", "P", "r", "o", "t", "e", "i", "n">>, <<" ", "g", "e", "n", "e">>,
      <<"U77FD">> }

RECURSIVE Concat(_)
Concat(pieces) == IF pieces = <<>> THEN <<>> ELSE Head(pieces) \o Concat(Tail(pieces))

NormTexts == {Concat(ps) : ps \in UNION {[1..n -> Pieces] : n \in 0..MaxPieces}}

InitNorm ==
    /\ \E t \in NormTexts : norm = [kind |-> "call", text |-> t, pc |-> "start", out |-> <<>>]
    /\ cli = Unused /\ csv = Unused /\ doc = Unused /\ built_once = Unused /\ extractor = Unused
    /\ MergerIdle /\ ClientIdle /\ RateIdle /\ ChunkIdle /\ ExtractIdle /\ BatchIdle
    /\ GraphIdle

\* lines 37-76: the call
Normalize ==
    /\ norm.kind = "call" /\ norm.pc = "start"
    /\ norm' = [norm EXCEPT !.pc = "done", !.out = normalize_entity_text(norm.text)]
    /\ UNCHANGED <<mergeVars, chain, clientVars, rateVars, chunkVars, extractVars,
                   batchVars, graphVars, cli, csv, doc, built_once, extractor>>

NextNorm == Normalize

SpecNorm == InitNorm /\ [][NextNorm]_vars

\* ---- the reference normalization

HasPrefix(t, p) == Len(t) >= Len(p) /\ SubSeq(t, 1, Len(p)) = p
HasSuffix(t, p) == Len(t) >= Len(p) /\ SubSeq(t, Len(t) - Len(p) + 1, Len(t)) = p
DropPrefix(t, p) == IF HasPrefix(t, p) THEN SubSeq(t, Len(p) + 1, Len(t)) ELSE t
DropSuffix(t, p) == IF HasSuffix(t, p) THEN SubSeq(t, 1, Len(t) - Len(p)) ELSE t

\* strip and collapse the whitespace, lower-case when there is no CJK
\* character, drop "the " as a prefix and " protein" / " gene" as a suffix,
\* strip again
ReferenceNormalization(t) ==
    LET collapsed == join(split(t, <<>>))
        cased == IF \E i \in 1..Len(collapsed) : collapsed[i] \in CJKChars THEN collapsed
                 ELSE lower(collapsed)
        cut == DropSuffix(DropSuffix(DropPrefix(cased, old_the), old_protein), old_gene)
    IN join(split(cut, <<>>))

\* C25: normalize_entity_text returns the reference normalization of its
\* input: "the " dropped only as a prefix, " protein" and " gene" only as a
\* suffix, never from the middle of the text.
NormalizeIsReference ==
    norm.kind = "call" /\ norm.pc = "done" => norm.out = ReferenceNormalization(norm.text)

-----------------------------------------------------------------------------
(* process_pubmed_file of pubmed_main.py, lines 61-96: the aggregation of  *)
(* the extraction results of the chunks of one document.  A chunk result   *)
(* is what extract_entities returns for the chunk and what the LLM answers *)
(* to the relation prompt of the chunk.                                    *)

\* most chunks of a document
MaxChunks == 3

\* the entity types of the chunk results
DocTypes == <<"Gene", "Disease">>

ChunkResult(entities, relations) == [entities |-> entities, relations |-> relations]

\* chunk results: the same entity with two occurrence counts, an entity
\* twice in one chunk, the same relation with two confidences, nothing
ChunkResults ==
    { ChunkResult([Gene |-> <<Ent(IL6, 2)>>, Disease |-> <<Ent(Silicosis, 1)>>],
                  <<Rel(Ref(IL6, "Gene"), Ref(Silicosis, "Disease"), "U76F8U5173", 9)>>),
      ChunkResult([Gene |-> <<Ent(IL6, 1), Ent(TNF, 1)>>, Disease |-> <<>>],
                  <<Rel(Ref(TNF, "Gene"), Ref(Silicosis, "Disease"), "U6291U5236", 8),
                    Rel(Ref(IL6, "Gene"), Ref(Silicosis, "Disease"), "U76F8U5173", 9)>>),
      ChunkResult([Gene |-> <<Ent(IL6, 2), Ent(IL6, 2)>>, Disease |-> <<Ent(Silicosis, 1)>>],
                  <<Rel(Ref(IL6, "Gene"), Ref(Silicosis, "Disease"), "U76F8U5173", 7),
                    Rel(Ref(IL6, "Gene"), Ref(Silicosis, "Disease"), "U76F8U5173", 7)>>),
      ChunkResult([Gene |-> <<>>, Disease |-> <<>>], <<>>) }

\* the orders a list of n chunks can be taken in
Orders(n) == {o \in [1..n -> 1..n] : \A i, j \in 1..n : o[i] = o[j] => i = j}

\* an element `in` a list
Member(x, list) == \E i \in 1..Len(list) : list[i] = x

\* AddUnique that takes two entries of the same text for the same entry
AddUniqueByText(list, x) ==
    IF "text" \in DOMAIN x /\ \E i \in 1..Len(list) : list[i].text = x.text THEN list
    ELSE IF Member(x, list) THEN list ELSE Append(list, x)

\* lines 77-78 and 94-95: `if x not in list: list.append(x)`
AddUnique(list, x) == IF Member(x, list) THEN list ELSE Append(list, x)

RECURSIVE AddAllUnique(_, _)
AddAllUnique(list, xs) ==
    IF xs = <<>> THEN list ELSE AddAllUnique(AddUnique(list, Head(xs)), Tail(xs))

\* lines 71-78: the entities of one chunk are merged into `entities`
RECURSIVE MergeChunkEntities(_, _, _)
MergeChunkEntities(entities, chunk_entities, order) ==
    IF order = <<>> THEN entities
    ELSE LET entity_type == Head(order)
             opened == IF entity_type \in DOMAIN entities THEN entities
                       ELSE Put(entities, entity_type, <<>>)
         IN MergeChunkEntities(
                Put(opened, entity_type,
                    AddAllUnique(opened[entity_type], chunk_entities[entity_type])),
                chunk_entities, Tail(order))

\* relation_extractor.py line 48: sum(len(ents) for ents in entities.values())
RECURSIVE TotalEntities(_, _)
TotalEntities(entities, order) ==
    IF order = <<>> THEN 0
    ELSE (IF Head(order) \in DOMAIN entities THEN Len(entities[Head(order)]) ELSE 0)
         + TotalEntities(entities, Tail(order))

\* relation_extractor.py lines 47-49: with fewer than two entities no
\* request is made and the chunk has no relations
ChunkRelations(entities, answer) ==
    IF DOMAIN entities = {} \/ TotalEntities(entities, DocTypes) < 2 THEN <<>> ELSE answer

InitDoc ==
    /\ \E n \in 0..MaxChunks : \E rs \in [1..n -> ChunkResults], o \in Orders(n) :
          doc = [kind |-> "run", chunk_results |-> rs, order |-> o, pc |-> "entities",
                 chunk_idx |-> 1, entities |-> <<>>, relations |-> <<>>]
    /\ cli = Unused /\ csv = Unused /\ norm = Unused /\ built_once = Unused /\ extractor = Unused
    /\ MergerIdle /\ ClientIdle /\ RateIdle /\ ChunkIdle /\ ExtractIdle /\ BatchIdle
    /\ GraphIdle

exceptDoc == <<mergeVars, chain, clientVars, rateVars, chunkVars, extractVars, batchVars,
               graphVars, cli, csv, norm, built_once, extractor>>

\* the chunk the loops are at
ThisChunk == doc.chunk_results[doc.order[doc.chunk_idx]]

\* lines 66-78: one turn of the entity loop
AggregateEntities ==
    /\ doc.kind = "run" /\ doc.pc = "entities" /\ doc.chunk_idx <= Len(doc.chunk_results)
    /\ doc' = [doc EXCEPT !.entities = MergeChunkEntities(@, ThisChunk.entities, DocTypes),
                          !.chunk_idx = @ + 1]
    /\ UNCHANGED exceptDoc

\* lines 80-87: between the loops
StartRelations ==
    /\ doc.kind = "run" /\ doc.pc = "entities" /\ doc.chunk_idx > Len(doc.chunk_results)
    /\ doc' = [doc EXCEPT !.pc = IF Len(doc.chunk_results) = 0 THEN "done" ELSE "relations",
                          !.chunk_idx = 1]
    /\ UNCHANGED exceptDoc

\* lines 88-96: one turn of the relation loop
AggregateRelations ==
    /\ doc.kind = "run" /\ doc.pc = "relations"
    /\ doc' = [doc EXCEPT !.relations =
                              AddAllUnique(@, ChunkRelations(doc.entities, ThisChunk.relations)),
                          !.chunk_idx = @ + 1,
                          !.pc = IF doc.chunk_idx = Len(doc.chunk_results) THEN "done"
                                 ELSE "relations"]
    /\ UNCHANGED exceptDoc

NextDoc == AggregateEntities \/ StartRelations \/ AggregateRelations

SpecDoc == InitDoc /\ [][NextDoc]_vars

\* ---- the aggregation as a function of the chunk results in a given order

RECURSIVE EntitiesOver(_, _)
EntitiesOver(rs, entities) ==
    IF rs = <<>> THEN entities
    ELSE EntitiesOver(Tail(rs), MergeChunkEntities(entities, Head(rs).entities, DocTypes))

RECURSIVE RelationsOver(_, _, _)
RelationsOver(rs, entities, relations) ==
    IF rs = <<>> THEN relations
    ELSE RelationsOver(Tail(rs), entities,
                       AddAllUnique(relations, ChunkRelations(entities, Head(rs).relations)))

\* the sets behind the lists of an entities map
AsSets(entities) == [t \in DOMAIN entities |-> Range(entities[t])]

NoRepeat(list) == \A i, j \in 1..Len(list) : list[i] = list[j] => i = j

DocDone == doc.kind = "run" /\ doc.pc = "done"

\* C26: whatever order the chunk results are taken in, the pipeline ends
\* with the entity sets and the relation set it has for the order of the
\* document, and no list holds two equal entries.
AggregationCommutes ==
    DocDone =>
        LET entities == EntitiesOver(doc.chunk_results, <<>>)
        IN /\ AsSets(doc.entities) = AsSets(entities)
           /\ Range(doc.relations) = Range(RelationsOver(doc.chunk_results, entities, <<>>))
           /\ \A t \in DOMAIN doc.entities : NoRepeat(doc.entities[t])
           /\ NoRepeat(doc.relations)

\* reached: three chunks taken in another order than the document's, with
\* lists in another order than the document order gives, an entry met in two
\* chunks and kept once
AggregationCommutesWitness ==
    /\ DocDone
    /\ Len(doc.chunk_results) = MaxChunks
    /\ doc.order # [i \in 1..MaxChunks |-> i]
    /\ doc.entities # EntitiesOver(doc.chunk_results, <<>>)
    /\ doc.relations # RelationsOver(doc.chunk_results, doc.entities, <<>>)
    /\ \E i, j \in 1..MaxChunks :
          /\ i # j
          /\ Range(doc.chunk_results[i].relations) \cap Range(doc.chunk_results[j].relations) # {}

-----------------------------------------------------------------------------
(* The requests of one document pipeline (process_pubmed_file): the calls  *)
(* of the entity loop go through the client of the EntityExtractor, those  *)
(* of the relation loop through the client of the RelationExtractor, which *)
(* is built between the two loops.  Time runs on from one to the other.    *)

InitPipeline ==
    /\ primary_model = "moonshot-v1-8k"
    /\ models_to_try = <<>> /\ model_idx = 0 /\ attempt = 0
    /\ cpc = "start"
    /\ requests = <<>> /\ last_status = 0 /\ not_found = {} /\ first_ok = 0
    /\ result = NoResult
    /\ now = min_request_interval /\ last_request_time = 0
    /\ last_end = -1 /\ gap = -1
    /\ extractor = [kind |-> "entity"]
    /\ cli = Unused /\ csv = Unused /\ norm = Unused /\ doc = Unused /\ built_once = Unused
    /\ MergerIdle /\ ChunkIdle /\ ExtractIdle /\ BatchIdle /\ GraphIdle

\* pubmed_main.py line 86, relation_extractor.py line 34, kimi_client.py
\* line 55: RelationExtractor() builds its own KimiClient, whose
\* last_request_time is 0.  The entity loop has made a call, and ends in the
\* first half of the time observed.
NewRelationExtractor ==
    /\ extractor = [kind |-> "entity"]
    /\ cpc = "done" /\ now <= MaxTime \div 2
    /\ extractor' = [kind |-> "relation"]
    /\ last_request_time' = 0
    /\ UNCHANGED <<mergeVars, chain, clientVars, now, last_end, gap, chunkVars,
                   extractVars, batchVars, graphVars, cli, csv, norm, doc, built_once>>

NextPipeline == NextRate \/ NewRelationExtractor

SpecPipeline == InitPipeline /\ [][NextPipeline]_vars

\* C27: in one pipeline every request but the first starts at least
\* min_request_interval after the request before it ended, the first request
\* of the relation loop after the last one of the entity loop included.
PipelineRequestsSpaced ==
    cpc = "post" /\ last_end # -1 => now - last_end >= min_request_interval

-----------------------------------------------------------------------------
(* The merge command on one output directory of the formatter: the files   *)
(* _save_json leaves for one document, found by find_kg_files and merged   *)
(* by merge_kg_data (the run of Next).                                     *)

\* output_formatter.py lines 83-96: the three files of one document
JsonFiles(entities, relations, dir) ==
    <<[dir |-> dir, name |-> "knowledge_graph.json", data |-> KgData(entities, relations)],
      [dir |-> dir, name |-> "entities.json", data |-> entities],
      [dir |-> dir, name |-> "relations.json", data |-> relations]>>

\* the raw_*.json files of a verbose pipeline run, in the same directory
RawFiles(entities, relations, dir) ==
    <<[dir |-> dir, name |-> "raw_entities.json", data |-> entities],
      [dir |-> dir, name |-> "raw_relations.json", data |-> relations]>>

\* merge_kg_files.py lines 94-104: the files of the directory tree that are
\* taken, by their names
find_kg_files(dir_files) ==
    SelectSeq(dir_files,
              LAMBDA f : \/ IsKgFileName(f.name)
                         \/ f.name \in {"entities.json", "relations.json"})

\* the documents: the entities and relations of the fragments of the pool
Documents == {Fragment("kg", f.entities, f.relations) : f \in FragmentPool}

InitOutputDir ==
    /\ \E d \in Documents, verbose \in BOOLEAN :
          /\ fragments = <<d>>
          /\ files = find_kg_files(JsonFiles(d.entities, d.relations, 1)
                                   \o (IF verbose THEN RawFiles(d.entities, d.relations, 1)
                                       ELSE <<>>))
    /\ min_confidence \in MinConfidences
    /\ max_entities \in 0..MaxCap
    /\ entity_types \in TypeFilters
    /\ pc = "start"
    /\ kg_files = <<>> /\ entity_files = <<>> /\ relation_files = <<>>
    /\ merged_data = EmptyMerge.merged_data
    /\ entity_map = <<>> /\ processed_relations = {}
    /\ chain = NoChain
    /\ ClientIdle
    /\ RestIdle

SpecOutputDir == InitOutputDir /\ [][Next]_vars

\* C28: merging the output directory of one document gives each merged
\* entity the occurrences it has in the document (those of the entities of
\* its type and normalized text), not their double.
DirectoryCountedOnce ==
    pc = "done" /\ max_entities = 0 =>
        \A t \in DOMAIN merged_data.entities :
            \A e \in Range(merged_data.entities[t]) :
                Occurrences(e) =
                    SumOccurrences(Get(fragments[1].entities, t, <<>>),
                                   normalize_entity_text(e.text))

-----------------------------------------------------------------------------
(* Merge, then build: merge_kg_data over fragments (the run of Next), the  *)
(* merged fragment saved by main() and loaded by a KnowledgeGraphBuilder,  *)
(* then build_graph (AddNode, AddEdge).                                    *)

\* fragments in which every relation endpoint names an entity of the
\* fragment, by text and type; the gene IL-6 is spelled in three ways
ResolvedPool ==
    { Fragment("kg",
               [Gene |-> <<Ent(IL6, 2)>>, Disease |-> <<Ent(Silicosis, 3)>>],
               <<Rel(Ref(IL6, "Gene"), Ref(Silicosis, "Disease"), "U76F8U5173", 9)>>),
      Fragment("kg",
               [Gene |-> <<Ent(il6, 1)>>, Disease |-> <<Ent(Silicosis, 1)>>],
               <<Rel(Ref(il6, "Gene"), Ref(Silicosis, "Disease"), "inhibits", 8)>>),
      Fragment("split",
               [Gene |-> <<Ent(TheIL6Protein, 1), Ent(TNF, 1)>>,
                Disease |-> <<Ent(Silicosis, 2)>>],
               <<Rel(Ref(TheIL6Protein, "Gene"), Ref(Silicosis, "Disease"), "causes", 6),
                 Rel(Ref(TNF, "Gene"), Ref(Silicosis, "Disease"), "U76F8U5173", 7)>>),
      Fragment("kg",
               [Gene |-> <<Ent(TNF, 2)>>, Drug |-> <<Ent(Aspirin, 1)>>],
               <<Rel(Ref(Aspirin, "Drug"), Ref(TNF, "Gene"), "inhibits", 9)>>) }

\* the endpoint is an entity of the fragment
Names(ref, f) ==
    /\ ref.type \in DOMAIN f.entities
    /\ \E e \in Range(f.entities[ref.type]) : e.text = ref.text

\* every relation endpoint of the fragment is one of its entities
SelfResolved(f) ==
    \A r \in Range(f.relations) : Names(r.source, f) /\ Names(r.target, f)

InitMergeBuild ==
    /\ fragments \in UNION {[1..n -> ResolvedPool] : n \in 1..MaxFiles}
    /\ files = FilesOf(fragments, 1)
    /\ min_confidence \in MinConfidences
    /\ max_entities = 0
    /\ entity_types = {}
    /\ pc = "start"
    /\ kg_files = <<>> /\ entity_files = <<>> /\ relation_files = <<>>
    /\ merged_data = EmptyMerge.merged_data
    /\ entity_map = <<>> /\ processed_relations = {}
    /\ chain = NoChain
    /\ ClientIdle
    /\ RestIdle

\* kg_builder.py lines 26-42: a builder loads the saved merge output, and
\* build_graph starts
LoadMerged ==
    /\ pc = "done" /\ gpc.loop = "idle"
    /\ self_data' = [entities |-> merged_data.entities, relations |-> merged_data.relations]
    /\ self_graph' = EmptyGraph
    /\ gpc' = Position(self_data', "entities", 1)
    /\ UNCHANGED exceptGraph

NextMergeBuild == Next \/ LoadMerged \/ AddNode \/ AddEdge

SpecMergeBuild == InitMergeBuild /\ [][NextMergeBuild]_vars

\* C29: when every relation endpoint of every input fragment names an
\* entity of its fragment, the graph built from the merged fragment (no cap,
\* no type filter) has an edge for every merged relation.
NoResolvedRelationLost ==
    Built /\ (\A a \in 1..Len(fragments) : SelfResolved(fragments[a])) =>
        /\ Len(self_graph.edges) = Len(self_data.relations)
        /\ self_data.relations = merged_data.relations

-----------------------------------------------------------------------------
(* build_graph called twice on one KnowledgeGraphBuilder                   *)

\* kg_builder.py lines 44-49: a second call of build_graph; self.graph is
\* the graph the first call left
BuildAgain ==
    /\ gpc.loop = "done" /\ built_once = Unused
    /\ built_once' = [kind |-> "graph", graph |-> self_graph]
    /\ gpc' = Position(self_data, "entities", 1)
    /\ UNCHANGED <<self_data, self_graph, mergeVars, chain, clientVars, rateVars,
                   chunkVars, extractVars, batchVars, cli, csv, norm, doc, extractor>>

NextRebuild == AddNode \/ AddEdge \/ BuildAgain

SpecRebuild == InitGraph /\ [][NextRebuild]_vars

\* C30: after a second build_graph on the same data the graph has the nodes
\* and the edges the first call left.
BuildIdempotent ==
    Built /\ built_once.kind = "graph" => self_graph = built_once.graph

=============================================================================
